---- MODULE Spec2Model ----
(***************************************************************************)
(* A model of AR-comparison-v1: the semantic retrieval subsystem            *)
(* (core/embed_retrieval.py), the PDF content chunker and statement         *)
(* classifier (core/parse_pdf.py) and the figure extractor and ratio        *)
(* engine (core/metrics.py).                                                *)
(*                                                                          *)
(* Identifiers (company, report_id, doc_id, chunk_id) are sequences of      *)
(* one-character strings, so that formatting and splitting act on their     *)
(* characters.  Section contents and chunk texts are ordinary strings, of   *)
(* which the code only takes lengths, joins and equality.                   *)
(***************************************************************************)
EXTENDS Integers, Sequences, FiniteSets, TLC

VARIABLES faiss, client, hashfn, index, chunks, dimension, ret, built, arg, res, pc

vars == <<faiss, client, hashfn, index, chunks, dimension, ret, built, arg, res, pc>>

(* Python's None, where an object with attributes may stand. *)
None == [none |-> TRUE]

(* ------------------------------------------------------------------ *)
(* Bounds of the model                                                 *)
(* ------------------------------------------------------------------ *)
MaxChunks == 2
MaxReports == 2
MaxTopK == 3
MaxWords == 3
MaxSections == 2
MaxChunkSize == 2
MaxCells == 1
MaxLines == 2

(* ------------------------------------------------------------------ *)
(* Sequences and strings                                               *)
(* ------------------------------------------------------------------ *)
SeqsUpTo(S, n) == UNION {[1..k -> S] : k \in 0..n}

Range(s) == {s[i] : i \in DOMAIN s}

RECURSIVE Concat(_)
Concat(ss) == IF ss = <<>> THEN <<>> ELSE Head(ss) \o Concat(Tail(ss))

DigitChar(d) == <<"0", "1", "2", "3", "4", "5", "6", "7", "8", "9">>[d + 1]

(* str(n) of a non-negative int, as characters. *)
RECURSIVE IntToStr(_)
IntToStr(n) == IF n < 10 THEN <<DigitChar(n)>>
               ELSE IntToStr(n \div 10) \o <<DigitChar(n % 10)>>

(* dict.get(key, default) *)
Get(d, key, default) == IF key \in DOMAIN d THEN d[key] ELSE default


Min(a, b) == IF a < b THEN a ELSE b

(* ------------------------------------------------------------------ *)
(* core/parse_pdf.py: Section, Report, slice_content_for_search        *)
(* ------------------------------------------------------------------ *)

(* ' '.join(words) *)
RECURSIVE JoinWords(_)
JoinWords(words) ==
    IF words = <<>> THEN ""
    ELSE IF Len(words) = 1 THEN words[1]
    ELSE words[1] \o " " \o JoinWords(Tail(words))

(* A Section of type TEXT.  `words` is content.split(): strings are opaque, *)
(* so a text section carries the whitespace-delimited words of its content. *)
TextSection(words, page_ref) ==
    [type |-> "text", content |-> JoinWords(words), words |-> words,
     page_ref |-> page_ref, raw_data |-> None]

(* pd.DataFrame(table[1:], columns=table[0]), kept by the lines of its *)
(* rendering df.to_string().                                          *)
DataFrame(lines) == [lines |-> lines]

(* pd.DataFrame() *)
EmptyDataFrame == DataFrame(<<>>)

(* A Section of type TABLE; raw_data is the table's DataFrame. *)
TableSection(content, page_ref, raw_data) ==
    [type |-> "table", content |-> content, words |-> <<>>,
     page_ref |-> page_ref, raw_data |-> raw_data]

(* report_id = f"{company}_{fiscal_year}" and the Report parse_pdf returns. *)
Report(company, fiscal_year, sections) ==
    [report_id |-> company \o <<"_">> \o IntToStr(fiscal_year),
     company |-> company, fiscal_year |-> fiscal_year,
     period |-> "FY", currency |-> "", sections |-> sections]

(* len(chunk_text.strip()) > 50 *)
MinChunkLen == 50

(* chunk_size: int = 500 *)
DefaultChunkSize == 500

(* f"{report.report_id}_chunk_{chunk_id}" / f"{report.report_id}_table_{chunk_id}" *)
ChunkIdOf(report_id, kind, n) ==
    report_id
    \o (IF kind = "text" THEN <<"_", "c", "h", "u", "n", "k", "_">>
                         ELSE <<"_", "t", "a", "b", "l", "e", "_">>)
    \o IntToStr(n)

(* The dict appended to chunks. *)
Chunk(report, section, text, n) ==
    [doc_id |-> report.report_id,
     chunk_id |-> ChunkIdOf(report.report_id, section.type, n),
     text |-> text,
     page_ref |-> section.page_ref,
     section_type |-> section.type]

(* A variant of the window loop that appends every window, whatever its *)
(* length.                                                              *)
RECURSIVE SliceTextKeepingShort(_, _, _, _, _)
SliceTextKeepingShort(report, section, i, chunk_size, acc) ==
    IF i > Len(section.words) THEN acc
    ELSE LET chunk_text ==
                 JoinWords(SubSeq(section.words, i,
                                  Min(i + chunk_size - 1, Len(section.words))))
         IN SliceTextKeepingShort(
                report, section, i + chunk_size, chunk_size,
                [chunks |-> Append(acc.chunks,
                                   Chunk(report, section, chunk_text, acc.chunk_id)),
                 chunk_id |-> acc.chunk_id + 1])

(* for i in range(0, len(words), chunk_size): ... ; i is the 1-based start   *)
(* of the window, acc the pair (chunks, chunk_id) of the enclosing function. *)
(* The joined words carry no outer whitespace, so strip() leaves the length. *)
RECURSIVE SliceText(_, _, _, _, _)
SliceText(report, section, i, chunk_size, acc) ==
    IF i > Len(section.words) THEN acc
    ELSE LET chunk_text ==
                 JoinWords(SubSeq(section.words, i,
                                  Min(i + chunk_size - 1, Len(section.words))))
             emitted ==
                 IF Len(chunk_text) > MinChunkLen
                 THEN [chunks |-> Append(acc.chunks,
                                         Chunk(report, section, chunk_text, acc.chunk_id)),
                       chunk_id |-> acc.chunk_id + 1]
                 ELSE acc
         IN SliceText(report, section, i + chunk_size, chunk_size, emitted)

(* SliceSection with the table branch forgetting `chunk_id += 1`. *)
SliceSectionTableKeepsCounter(report, section, chunk_size, acc) ==
    IF section.type = "text"
    THEN SliceText(report, section, 1, chunk_size, acc)
    ELSE IF section.type = "table"
    THEN [chunks |-> Append(acc.chunks,
                            Chunk(report, section, section.content, acc.chunk_id)),
          chunk_id |-> acc.chunk_id]
    ELSE acc

(* One iteration of `for section in report.sections`. *)
SliceSection(report, section, chunk_size, acc) ==
    IF section.type = "text"
    THEN SliceText(report, section, 1, chunk_size, acc)
    ELSE IF section.type = "table"
    THEN [chunks |-> Append(acc.chunks,
                            Chunk(report, section, section.content, acc.chunk_id)),
          chunk_id |-> acc.chunk_id + 1]
    ELSE acc

RECURSIVE SliceSections(_, _, _, _)
SliceSections(report, k, chunk_size, acc) ==
    IF k > Len(report.sections) THEN acc
    ELSE SliceSections(report, k + 1, chunk_size,
                       SliceSection(report, report.sections[k], chunk_size, acc))

slice_content_for_search(report, chunk_size) ==
    SliceSections(report, 1, chunk_size, [chunks |-> <<>>, chunk_id |-> 0]).chunks

(* ------------------------------------------------------------------ *)
(* core/embed_retrieval.py: EmbeddingService                           *)
(*                                                                     *)
(* A vector <<x, y>> stands for the 768-wide float32 vector            *)
(* (x/5, y/5, 0, ..., 0): <<3, 4>> has L2 norm 1, <<6, 8>> norm 2.     *)
(* An inner product is kept in units of 1/25.                          *)
(* ------------------------------------------------------------------ *)

(* dim: int = 768, the width of every vector either backend returns. *)
EmbedDim == 768

(* Vectors genai.embed_content can answer with. *)
RealVectors == {<<6, 8>>}

(* self.client is not None *)
is_available == client

(* np.random.seed(seed); np.random.normal(0, 1, dim); embedding / norm:   *)
(* a unit vector that is a function of the seed alone.                    *)
(* The seed is given by its high and low 16-bit halves.                    *)
SeededUnitVector(seed) == IF seed[2] % 2 = 0 THEN <<3, 4>> ELSE <<4, 3>>

(* h % (2**32), as its high and low 16-bit halves (2**32 exceeds the      *)
(* integers of the checker).                                              *)
Mod2Pow32(h) == <<(h \div 65536) % 65536, h % 65536>>

(* hash(text) is fixed for the life of the process (hashfn). *)
_generate_mock_embedding(text) == SeededUnitVector(Mod2Pow32(hashfn[text]))

(* The vectors embed_text(text) can return: the mock vector when the    *)
(* service is unavailable or the call raises, else the backend's answer. *)
embed_text(text) ==
    IF ~is_available THEN {_generate_mock_embedding(text)}
    ELSE RealVectors \cup {_generate_mock_embedding(text)}

(* embed_query differs from embed_text in the task_type it sends only. *)
embed_query(query) ==
    IF ~is_available THEN {_generate_mock_embedding(query)}
    ELSE RealVectors \cup {_generate_mock_embedding(query)}

(* The lists embed_batch(texts) can return: embed_text never answers None, *)
(* so each text appends one of its embed_text vectors, in input order.    *)
RECURSIVE embed_batch(_)
embed_batch(texts) ==
    IF texts = <<>> THEN {<<>>}
    ELSE {<<embedding>> \o rest :
              embedding \in embed_text(Head(texts)),
              rest \in embed_batch(Tail(texts))}

(* ------------------------------------------------------------------ *)
(* faiss: normalize_L2, IndexFlatIP                                    *)
(* ------------------------------------------------------------------ *)
Dot(u, v) == u[1] * v[1] + u[2] * v[2]

(* The L2 norm of <<x, y>> in units of 1/5 (the vectors of the model have  *)
(* integral norms).                                                       *)
Norm(v) == CHOOSE n \in 0..(Dot(v, v)) : n * n = Dot(v, v)

(* faiss.normalize_L2 leaves a zero vector as it is. *)
normalize_L2(v) ==
    IF Norm(v) = 0 THEN v
    ELSE <<(v[1] * 5) \div Norm(v), (v[2] * 5) \div Norm(v)>>

(* faiss.IndexFlatIP(d) after index.add(rows). *)
IndexFlatIP(d, rows) == [d |-> d, rows |-> rows]

(* index.search(q, k) for k <= ntotal: the k rows of largest inner product *)
(* in descending order, as <<score, row>> pairs; rows of equal score come  *)
(* in an order the library does not promise.  `left` are the rows not yet  *)
(* reported.                                                              *)
RECURSIVE TopRows(_, _, _, _)
TopRows(rows, q, k, left) ==
    IF k = 0 \/ left = {} THEN {<<>>}
    ELSE UNION {
           {<<(<<Dot(rows[r], q), r>>)>> \o rest :
                rest \in TopRows(rows, q, k - 1, left \ {r})}
           : r \in {r \in left :
                       \A o \in left : Dot(rows[r], q) >= Dot(rows[o], q)}}

IndexSearch(rows, q, k) == TopRows(rows, q, k, DOMAIN rows)

(* ------------------------------------------------------------------ *)
(* core/embed_retrieval.py: VectorRetriever                            *)
(* ------------------------------------------------------------------ *)

(* self.dimension = 768 *)
InitialDimension == 768

(* What a call hands back, with the call it answers. *)
Returned(op, input, value) == [op |-> op, input |-> input, value |-> value]

(* build_index that resets the retriever when handed an empty list. *)
build_index_resetting(op, cs) ==
    IF cs = <<>>
    THEN /\ ret' = Returned(op, cs, FALSE)
         /\ index' = None
         /\ chunks' = <<>>
         /\ UNCHANGED <<dimension, built>>
    ELSE \E embeddings \in embed_batch([i \in DOMAIN cs |-> cs[i].text]) :
            /\ dimension' = EmbedDim
            /\ index' = IF faiss
                        THEN IndexFlatIP(dimension',
                                 [i \in DOMAIN embeddings |->
                                      normalize_L2(embeddings[i])])
                        ELSE index
            /\ chunks' = cs
            /\ built' = cs
            /\ ret' = Returned(op, cs, TRUE)

(* build_index(chunks): the guard on empty input, embed_batch, the matrix, *)
(* the index when faiss is installed, the stored chunks, the return value. *)
build_index(op, cs) ==
    IF cs = <<>>
    THEN /\ ret' = Returned(op, cs, FALSE)
         /\ UNCHANGED <<index, chunks, dimension, built>>
    ELSE \E embeddings \in embed_batch([i \in DOMAIN cs |-> cs[i].text]) :
            IF embeddings = <<>>
            THEN /\ ret' = Returned(op, cs, FALSE)
                 /\ UNCHANGED <<index, chunks, dimension, built>>
            ELSE /\ dimension' = EmbedDim
                 /\ index' = IF faiss
                             THEN IndexFlatIP(dimension',
                                      [i \in DOMAIN embeddings |->
                                           normalize_L2(embeddings[i])])
                             ELSE index
                 /\ chunks' = cs
                 /\ built' = cs
                 /\ ret' = Returned(op, cs, TRUE)

(* The result dict search builds from a hit. *)
SearchResult(chunk, score) ==
    [chunk_id |-> chunk.chunk_id,
     text |-> chunk.text,
     page_ref |-> Get(chunk, "page_ref", ""),
     doc_id |-> Get(chunk, "doc_id", <<>>),
     similarity_score |-> score,
     section_type |-> Get(chunk, "section_type", "text")]

(* CollectResults with results.insert(0, result) for results.append(result). *)
RECURSIVE CollectResultsPrepending(_, _)
CollectResultsPrepending(cs, hits) ==
    IF hits = <<>> THEN <<>>
    ELSE LET hit == Head(hits)
         IN IF hit[2] > Len(cs)
            THEN CollectResultsPrepending(cs, Tail(hits))
            ELSE CollectResultsPrepending(cs, Tail(hits))
                     \o <<SearchResult(cs[hit[2]], hit[1])>>

(* for score, idx in zip(scores[0], indices[0]): rows are numbered from 1 *)
(* here, so idx >= len(self.chunks) reads hit[2] > Len(cs).               *)
RECURSIVE CollectResults(_, _)
CollectResults(cs, hits) ==
    IF hits = <<>> THEN <<>>
    ELSE LET hit == Head(hits)
         IN IF hit[2] > Len(cs)
            THEN CollectResults(cs, Tail(hits))
            ELSE <<SearchResult(cs[hit[2]], hit[1])>>
                     \o CollectResults(cs, Tail(hits))

(* The lists search(query, top_k) can return in the current state. *)
search(query, top_k) ==
    IF index = None \/ chunks = <<>> THEN {<<>>}
    ELSE UNION {
           LET q == IF faiss THEN normalize_L2(query_embedding)
                             ELSE query_embedding
           IN IF faiss /\ index # None
              THEN {CollectResults(chunks, hits) :
                        hits \in IndexSearch(index.rows, q, Min(top_k, Len(chunks)))}
              ELSE {<<>>}
           : query_embedding \in embed_query(query)}

(* ------------------------------------------------------------------ *)
(* core/embed_retrieval.py: SemanticSearchEngine                       *)
(* ------------------------------------------------------------------ *)

(* s.split('_')[0] *)
RECURSIVE SplitFirst(_)
SplitFirst(s) ==
    IF s = <<>> \/ Head(s) = "_" THEN <<>>
    ELSE <<Head(s)>> \o SplitFirst(Tail(s))

Unknown == <<"u", "n", "k", "n", "o", "w", "n">>

(* result.get('doc_id', '').split('_')[0] if result.get('doc_id') else 'unknown' *)
CompanyOf(result) ==
    IF Get(result, "doc_id", <<>>) # <<>>
    THEN SplitFirst(Get(result, "doc_id", <<>>))
    ELSE Unknown

(* grouped_results: company -> the results of that company, in order. *)
RECURSIVE GroupResults(_, _)
GroupResults(results, grouped) ==
    IF results = <<>> THEN grouped
    ELSE LET result == Head(results)
             company == CompanyOf(result)
             started == IF company \in DOMAIN grouped THEN grouped
                        ELSE [c \in DOMAIN grouped \cup {company} |->
                                 IF c = company THEN <<>> ELSE grouped[c]]
         IN GroupResults(Tail(results),
                         [started EXCEPT ![company] = Append(@, result)])

(* The empty dict {}. *)
EmptyDict == [c \in {} |-> <<>>]

(* The mappings search_semantic(query, top_k) can return. *)
search_semantic(query, top_k) ==
    {IF results = <<>> THEN EmptyDict ELSE GroupResults(results, EmptyDict) :
        results \in search(query, top_k)}

(* is_ready() without the test of the index. *)
is_ready_chunks_only == Len(chunks) > 0

(* is_ready() *)
is_ready == index # None /\ Len(chunks) > 0

(* all_chunks of initialize_from_reports: every report of the model has *)
(* sections, and the chunker is called with its default chunk_size.      *)
RECURSIVE AllChunks(_)
AllChunks(reports) ==
    IF reports = <<>> THEN <<>>
    ELSE slice_content_for_search(Head(reports), DefaultChunkSize)
             \o AllChunks(Tail(reports))

(* ------------------------------------------------------------------ *)
(* The retrieval subsystem as a state machine                          *)
(* ------------------------------------------------------------------ *)

(* Inputs: ASCII stand-ins for the rendered texts of a report. *)
Word26 == "annual-report-of-the-group"
TableText == "Table 1: revenue 1,234,567"
TableFrame == DataFrame(<<<<"r", "e", "v", "e", "n", "u", "e", " ", "1", ",", "2", "3", "4", ",", "5", "6", "7">>>>)
PageText == JoinWords(<<Word26, Word26>>)
CompanyA == <<"A">>
CompanyB == <<"B">>

TableOnly == <<TableSection(TableText, "p1_t1", TableFrame)>>
TextAndTable == <<TextSection(<<Word26, Word26>>, "p1"),
                  TableSection(TableText, "p1_t1", TableFrame)>>

EngineReports ==
    {Report(CompanyA, 2023, TextAndTable), Report(CompanyB, 2024, TableOnly)}

ReportLists == SeqsUpTo(EngineReports, MaxReports)

(* all_chunks for each list of reports of the model. *)
AllChunksOf == [reports \in ReportLists |-> AllChunks(reports)]

(* Chunk dicts handed to build_index directly; the second has no optional key. *)
ChunkPool ==
    {Chunk(Report(CompanyA, 2023, TableOnly), TableOnly[1], TableText, 0),
     [chunk_id |-> <<"x">>, text |-> PageText]}

ChunkLists == SeqsUpTo(ChunkPool, MaxChunks)

Queries == {TableText, "profit"}

(* hash() of the texts of the model in two processes. *)
HashFunctions ==
    {[t \in {TableText, PageText, "profit"} |->
          IF t = TableText THEN 4 ELSE IF t = PageText THEN 4 ELSE -3],
     [t \in {TableText, PageText, "profit"} |->
          IF t = TableText THEN -3 ELSE IF t = PageText THEN 4 ELSE 6]}

Idle == [op |-> "init", input |-> <<>>, value |-> FALSE]

(* No pure-function run is in progress. *)
NoRun == /\ arg = <<>>
         /\ res = <<>>
         /\ pc = "idle"

Init ==
    /\ faiss \in BOOLEAN
    /\ client \in BOOLEAN
    /\ hashfn \in HashFunctions
    /\ index = None
    /\ chunks = <<>>
    /\ dimension = InitialDimension
    /\ built = <<>>
    /\ ret = Idle
    /\ NoRun

environment == <<faiss, client, hashfn>>
store == <<index, chunks, dimension, built>>
run == <<arg, res, pc>>

BuildIndex ==
    /\ \E cs \in ChunkLists : build_index("build_index", cs)
    /\ UNCHANGED <<environment, run>>

InitializeFromReports ==
    /\ \E reports \in ReportLists :
           build_index("initialize_from_reports", AllChunksOf[reports])
    /\ UNCHANGED <<environment, run>>

Search ==
    /\ \E query \in Queries, top_k \in 1..MaxTopK :
           \E results \in search(query, top_k) :
               ret' = Returned("search", [query |-> query, top_k |-> top_k], results)
    /\ UNCHANGED <<environment, store, run>>

SearchSemantic ==
    /\ \E query \in Queries, top_k \in 1..MaxTopK :
           \E grouped \in search_semantic(query, top_k) :
               ret' = Returned("search_semantic",
                               [query |-> query, top_k |-> top_k], grouped)
    /\ UNCHANGED <<environment, store, run>>

(* A VectorRetriever under any sequence of build_index and search calls. *)
Next ==
    \/ BuildIndex
    \/ Search
    \/ SearchSemantic

Spec == Init /\ [][Next]_vars

(* A SemanticSearchEngine under initialize_from_reports and search_semantic. *)
NextEngine ==
    \/ InitializeFromReports
    \/ SearchSemantic

SpecEngine == Init /\ [][NextEngine]_vars

(* ------------------------------------------------------------------ *)
(* slice_content_for_search as a function of its inputs                *)
(* ------------------------------------------------------------------ *)

(* The retrieval subsystem stays as constructed while a function runs. *)
Parked ==
    /\ faiss = FALSE
    /\ client = FALSE
    /\ hashfn = CHOOSE h \in HashFunctions : TRUE
    /\ index = None
    /\ chunks = <<>>
    /\ dimension = InitialDimension
    /\ built = <<>>
    /\ ret = Idle

Word60 == "consolidated-statement-of-comprehensive-income-for-the-year"

ChunkerSections ==
    {TextSection(words, "p1") :
         words \in SeqsUpTo({Word26, Word60}, MaxWords) \ {<<>>}}
    \cup {TableSection(TableText, "p1_t1", TableFrame)}

ChunkerReports ==
    {Report(CompanyA, 2023, sections) :
         sections \in SeqsUpTo(ChunkerSections, MaxSections)}

ChunkSizes == (1..MaxChunkSize) \cup {DefaultChunkSize}

InitChunker ==
    /\ Parked
    /\ arg \in [report : ChunkerReports, chunk_size : ChunkSizes]
    /\ res = <<>>
    /\ pc = "call"

SliceContentForSearch ==
    /\ pc = "call"
    /\ res' = slice_content_for_search(arg.report, arg.chunk_size)
    /\ pc' = "done"
    /\ UNCHANGED <<environment, store, ret, arg>>

NextChunker == SliceContentForSearch

SpecChunker == InitChunker /\ [][NextChunker]_vars

(* ------------------------------------------------------------------ *)
(* core/metrics.py: FinancialCalculator._find_amount_by_keywords       *)
(*                                                                     *)
(* A line is a sequence of characters; a character outside ASCII is   *)
(* written by its code point, "U+71DF".                                *)
(* A float is kept in thousandths: exact for the tokens of the model,  *)
(* which have at most three decimals.                                  *)
(* ------------------------------------------------------------------ *)

(* self.account_keywords *)
account_keywords ==
    [zh |->
           [revenue |->
                <<<<"U+71DF", "U+696D", "U+6536", "U+5165">>,
                  <<"U+71DF", "U+6536">>,
                  <<"U+92B7", "U+552E", "U+6536", "U+5165">>,
                  <<"U+7E3D", "U+6536", "U+5165">>,
                  <<"U+6536", "U+5165">>>>,
            gross_profit |->
                <<<<"U+6BDB", "U+5229">>,
                  <<"U+92B7", "U+552E", "U+6BDB", "U+5229">>>>,
            operating_income |->
                <<<<"U+71DF", "U+696D", "U+5229", "U+76CA">>,
                  <<"U+71DF", "U+696D", "U+5229", "U+6F64">>,
                  <<"U+7D93", "U+71DF", "U+5229", "U+6F64">>>>,
            net_income |->
                <<<<"U+672C", "U+671F", "U+6DE8", "U+5229">>,
                  <<"U+6DE8", "U+5229", "U+6F64">>,
                  <<"U+6DE8", "U+6536", "U+76CA">>,
                  <<"U+7A05", "U+5F8C", "U+6DE8", "U+5229">>,
                  <<"U+7A05", "U+5F8C", "U+76C8", "U+9918">>>>,
            total_assets |->
                <<<<"U+7E3D", "U+8CC7", "U+7522">>,
                  <<"U+8CC7", "U+7522", "U+7E3D", "U+984D">>>>,
            total_liabilities |->
                <<<<"U+7E3D", "U+8CA0", "U+50B5">>,
                  <<"U+8CA0", "U+50B5", "U+7E3D", "U+984D">>>>,
            shareholders_equity |->
                <<<<"U+80A1", "U+6771", "U+6B0A", "U+76CA">>,
                  <<"U+6240", "U+6709", "U+8005", "U+6B0A", "U+76CA">>,
                  <<"U+6DE8", "U+8CC7", "U+7522">>>>,
            operating_cash_flow |->
                <<<<"U+71DF", "U+696D", "U+6D3B", "U+52D5", "U+73FE", "U+91D1", "U+6D41", "U+91CF">>,
                  <<"U+7D93", "U+71DF", "U+6D3B", "U+52D5", "U+73FE", "U+91D1", "U+6D41", "U+91CF">>>>]]

Digits == {"0", "1", "2", "3", "4", "5", "6", "7", "8", "9"}

DigitValue(c) == CHOOSE d \in 0..9 : DigitChar(d) = c

(* keyword in line *)
Contains(line, keyword) ==
    \E i \in 0..(Len(line) - Len(keyword)) :
        SubSeq(line, i + 1, i + Len(keyword)) = keyword

(* The length of the longest prefix of s made of characters of `class`. *)
RECURSIVE RunLength(_, _)
RunLength(s, class) ==
    IF s = <<>> \/ Head(s) \notin class THEN 0
    ELSE 1 + RunLength(Tail(s), class)

(* The length of the match of [\d,]+\.?\d* at the head of s; 0 for no match. *)
MatchLength(s) ==
    LET head == RunLength(s, Digits \cup {","})
        dot == IF head < Len(s) /\ s[head + 1] = "." THEN 1 ELSE 0
        tail == RunLength(SubSeq(s, head + dot + 1, Len(s)), Digits)
    IN IF head = 0 THEN 0 ELSE head + dot + tail

(* re.findall(r'[\d,]+\.?\d*', line) *)
RECURSIVE FindAll(_)
FindAll(line) ==
    IF line = <<>> THEN <<>>
    ELSE IF MatchLength(line) = 0 THEN FindAll(Tail(line))
    ELSE <<SubSeq(line, 1, MatchLength(line))>>
             \o FindAll(SubSeq(line, MatchLength(line) + 1, Len(line)))

(* num.replace(',', '') *)
RECURSIVE RemoveCommas(_)
RemoveCommas(num) ==
    IF num = <<>> THEN <<>>
    ELSE IF Head(num) = "," THEN RemoveCommas(Tail(num))
    ELSE <<Head(num)>> \o RemoveCommas(Tail(num))

(* int(digits) for a string of digits, 0 for the empty string. *)
RECURSIVE DigitsValue(_)
DigitsValue(digits) ==
    IF digits = <<>> THEN 0
    ELSE DigitsValue(SubSeq(digits, 1, Len(digits) - 1)) * 10
             + DigitValue(digits[Len(digits)])

(* The first three decimals of a fraction string, as thousandths. *)
Thousandths(fraction) ==
    DigitsValue(SubSeq(fraction \o <<"0", "0", "0">>, 1, 3))

(* float(s) for s of the shape digits* [ '.' digits* ]: <<>> when float   *)
(* raises ValueError (no digit at all), else <<value in thousandths>>.    *)
Float(s) ==
    LET whole == RunLength(s, Digits)
        fraction == IF whole < Len(s) THEN SubSeq(s, whole + 2, Len(s)) ELSE <<>>
    IN IF whole = 0 /\ fraction = <<>> THEN <<>>
       ELSE <<DigitsValue(SubSeq(s, 1, whole)) * 1000 + Thousandths(fraction)>>

(* float(...) > 1000 *)
MinAmount == 1000

Max(S) == CHOOSE m \in S : \A x \in S : m >= x

(* The body of `if keyword in line:` for one line: <<>> when the loop goes *)
(* on to the next line (no number, a ValueError, or no amount above        *)
(* 1000), else <<max(amounts)>>.                                           *)
LineAmount(line) ==
    LET numbers == FindAll(line)
        floats == [i \in DOMAIN numbers |-> Float(RemoveCommas(numbers[i]))]
        amounts == {floats[i][1] : i \in {i \in DOMAIN floats :
                                              floats[i][1] > MinAmount * 1000}}
    IN IF numbers = <<>> THEN <<>>
       ELSE IF \E i \in DOMAIN floats : floats[i] = <<>> THEN <<>>
       ELSE IF amounts = {} THEN <<>>
       ELSE <<Max(amounts)>>

(* for line in lines: the first line from k on that holds the keyword and *)
(* returns an amount; <<>> when the loop ends.                            *)
RECURSIVE ScanLines(_, _, _)
ScanLines(lines, k, keyword) ==
    IF k > Len(lines) THEN <<>>
    ELSE IF Contains(lines[k], keyword) /\ LineAmount(lines[k]) # <<>>
    THEN LineAmount(lines[k])
    ELSE ScanLines(lines, k + 1, keyword)

(* _find_amount_by_keywords with the loops exchanged: the first line that *)
(* holds any alias and returns an amount.                                 *)
_find_amount_lines_first(lines, keywords) ==
    IF \E k \in DOMAIN lines :
           /\ LineAmount(lines[k]) # <<>>
           /\ \E a \in DOMAIN keywords : Contains(lines[k], keywords[a])
    THEN LineAmount(lines[CHOOSE k \in DOMAIN lines :
                        /\ LineAmount(lines[k]) # <<>>
                        /\ \E a \in DOMAIN keywords : Contains(lines[k], keywords[a])
                        /\ \A j \in 1..(k - 1) :
                               ~(/\ LineAmount(lines[j]) # <<>>
                                 /\ \E a \in DOMAIN keywords :
                                        Contains(lines[j], keywords[a]))])
    ELSE <<>>

(* for keyword in keywords: ... return None; `lines` is text.split('\n'); *)
(* <<>> stands for None, <<v>> for the float v.                           *)
RECURSIVE _find_amount_by_keywords(_, _)
_find_amount_by_keywords(lines, keywords) ==
    IF keywords = <<>> THEN <<>>
    ELSE IF ScanLines(lines, 1, Head(keywords)) # <<>>
    THEN ScanLines(lines, 1, Head(keywords))
    ELSE _find_amount_by_keywords(lines, Tail(keywords))

(* Statement lines: a label followed by rendered cells. *)
Labels ==
    {<<"U+71DF", "U+696D", "U+6536", "U+5165">>,
     <<"U+71DF", "U+6536">>,
     <<"U+6BDB", "U+5229">>}

CellTexts ==
    {<<" ", "1", ",", "2", "3", "4", ",", "5", "6", "7", " ", "(", "N", "o", "t", "e", " ", "5", ":", " ", "3", ")">>,
     <<" ", "2", ",", "0", "0", "0", " ", "3", ",", "0", "0", "0", ".", "5", " ", "1", ",", "0", "0", "0">>,
     <<" ", ",", " ", "5", ",", "0", "0", "0">>}

StatementLines ==
    {label \o Concat(cells) :
         label \in Labels, cells \in SeqsUpTo(CellTexts, MaxCells)}

StatementTexts == SeqsUpTo(StatementLines, MaxLines)

InitFigures ==
    /\ Parked
    /\ arg \in [text : StatementTexts, key : {"revenue"}]
    /\ res = <<>>
    /\ pc = "call"

FindAmountByKeywords ==
    /\ pc = "call"
    /\ res' = _find_amount_by_keywords(arg.text, account_keywords.zh[arg.key])
    /\ pc' = "done"
    /\ UNCHANGED <<environment, store, ret, arg>>

NextFigures == FindAmountByKeywords

SpecFigures == InitFigures /\ [][NextFigures]_vars

(* ------------------------------------------------------------------ *)
(* core/metrics.py: FinancialCalculator.calculate_ratios               *)
(*                                                                     *)
(* A figures dict is a function from its keys to numbers.  A ratio is  *)
(* kept in hundredths, which is what round(x, 2) leaves of it.  The    *)
(* display strings (name, unit, page_ref, calculation_method) are      *)
(* written in English.                                                 *)
(* ------------------------------------------------------------------ *)

(* p / q rounded to the nearest integer, ties to even (q > 0). *)
RoundDiv(p, q) ==
    LET floor == p \div q
        twice == 2 * (p - floor * q)
    IN IF twice < q THEN floor
       ELSE IF twice > q THEN floor + 1
       ELSE IF floor % 2 = 0 THEN floor ELSE floor + 1

(* round((a / b) * scale, 2), in hundredths (b > 0). *)
Round2(a, b, scale) == RoundDiv(a * scale * 100, b)

Metric(name, value, unit, calculation_method) ==
    [name |-> name, value |-> value, unit |-> unit, period |-> "FY",
     page_ref |-> "computed", calculation_method |-> calculation_method]

(* metrics = {} *)
NoMetrics == [k \in {} |-> 0]

(* metrics[key] = metric when the guard holds. *)
Put(metrics, guard, key, metric) ==
    IF guard
    THEN [k \in DOMAIN metrics \cup {key} |-> IF k = key THEN metric ELSE metrics[k]]
    ELSE metrics

(* dict.update *)
Update(metrics, more) ==
    [k \in DOMAIN metrics \cup DOMAIN more |->
         IF k \in DOMAIN more THEN more[k] ELSE metrics[k]]

(* The profitability ratios with ROE guarded by net_income > 0. *)
_calculate_profitability_ratios_positive_roe(figures) ==
    LET revenue == Get(figures, "revenue", 0)
        net_income == Get(figures, "net_income", 0)
        total_assets == Get(figures, "total_assets", 0)
        shareholders_equity == Get(figures, "shareholders_equity", 0)
        m1 == Put(NoMetrics, revenue > 0 /\ net_income > 0, "net_margin",
                  Metric("net margin", Round2(net_income, revenue, 100), "%",
                         "net income / revenue"))
        m2 == Put(m1, shareholders_equity > 0 /\ net_income > 0, "roe",
                  Metric("ROE", Round2(net_income, shareholders_equity, 100), "%",
                         "net income / shareholders equity"))
    IN Put(m2, total_assets > 0 /\ net_income # 0, "roa",
           Metric("ROA", Round2(net_income, total_assets, 100), "%",
                  "net income / total assets"))

_calculate_profitability_ratios(figures) ==
    LET revenue == Get(figures, "revenue", 0)
        net_income == Get(figures, "net_income", 0)
        total_assets == Get(figures, "total_assets", 0)
        shareholders_equity == Get(figures, "shareholders_equity", 0)
        m1 == Put(NoMetrics, revenue > 0 /\ net_income > 0, "net_margin",
                  Metric("net margin", Round2(net_income, revenue, 100), "%",
                         "net income / revenue"))
        m2 == Put(m1, shareholders_equity > 0 /\ net_income # 0, "roe",
                  Metric("ROE", Round2(net_income, shareholders_equity, 100), "%",
                         "net income / shareholders equity"))
    IN Put(m2, total_assets > 0 /\ net_income # 0, "roa",
           Metric("ROA", Round2(net_income, total_assets, 100), "%",
                  "net income / total assets"))

_calculate_efficiency_ratios(figures) ==
    LET revenue == Get(figures, "revenue", 0)
        total_assets == Get(figures, "total_assets", 0)
    IN Put(NoMetrics, total_assets > 0 /\ revenue > 0, "asset_turnover",
           Metric("asset turnover", Round2(revenue, total_assets, 1), "x",
                  "revenue / total assets"))

_calculate_leverage_ratios(figures) ==
    LET total_assets == Get(figures, "total_assets", 0)
        total_liabilities == Get(figures, "total_liabilities", 0)
    IN Put(NoMetrics, total_assets > 0 /\ total_liabilities > 0, "debt_ratio",
           Metric("debt ratio", Round2(total_liabilities, total_assets, 100), "%",
                  "total liabilities / total assets"))

_calculate_cash_quality_ratios(figures) ==
    LET operating_cash_flow == Get(figures, "operating_cash_flow", 0)
        net_income == Get(figures, "net_income", 0)
    IN Put(NoMetrics, net_income > 0 /\ operating_cash_flow > 0, "ocf_to_ni",
           Metric("operating cash flow / net income",
                  Round2(operating_cash_flow, net_income, 1), "x",
                  "operating cash flow / net income"))

CompanyMetrics(company, fiscal_year, period, currency, metrics) ==
    [company |-> company, fiscal_year |-> fiscal_year, period |-> period,
     currency |-> currency, metrics |-> metrics]

calculate_ratios(figures) ==
    CompanyMetrics(<<>>, 2023, "FY", "",
        Update(Update(Update(_calculate_profitability_ratios(figures),
                             _calculate_efficiency_ratios(figures)),
                      _calculate_leverage_ratios(figures)),
               _calculate_cash_quality_ratios(figures)))

FigureKeys ==
    {"revenue", "net_income", "total_assets", "total_liabilities",
     "shareholders_equity", "operating_cash_flow"}

FigureValues == {-100, 0, 100, 1000}

FigureDicts == UNION {[present -> FigureValues] : present \in SUBSET FigureKeys}

InitRatios ==
    /\ Parked
    /\ arg \in FigureDicts
    /\ res = <<>>
    /\ pc = "call"

CalculateRatios ==
    /\ pc = "call"
    /\ res' = calculate_ratios(arg)
    /\ pc' = "done"
    /\ UNCHANGED <<environment, store, ret, arg>>

NextRatios == CalculateRatios

SpecRatios == InitRatios /\ [][NextRatios]_vars

(* ------------------------------------------------------------------ *)
(* parse_pdf.py: the statement classifier                              *)
(* ------------------------------------------------------------------ *)

UpperLetters ==
    <<"A", "B", "C", "D", "E", "F", "G", "H", "I", "J", "K", "L", "M",
      "N", "O", "P", "Q", "R", "S", "T", "U", "V", "W", "X", "Y", "Z">>

LowerLetters ==
    <<"a", "b", "c", "d", "e", "f", "g", "h", "i", "j", "k", "l", "m",
      "n", "o", "p", "q", "r", "s", "t", "u", "v", "w", "x", "y", "z">>

(* str.lower() on one character: only cased letters change. *)
LowerChar(c) ==
    IF \E i \in DOMAIN UpperLetters : UpperLetters[i] = c
    THEN LowerLetters[CHOOSE i \in DOMAIN UpperLetters : UpperLetters[i] = c]
    ELSE c

(* section.content.lower() *)
Lower(text) == [i \in DOMAIN text |-> LowerChar(text[i])]

(* keywords of _is_income_statement *)
IncomeKeywords ==
    {<<"U+640D", "U+76CA">>,
     <<"U+5229", "U+6F64">>,
     <<"U+6536", "U+76CA">>,
     <<"i", "n", "c", "o", "m", "e">>,
     <<"p", "r", "o", "f", "i", "t">>}

(* keywords of _is_balance_sheet *)
BalanceKeywords ==
    {<<"U+8CC7", "U+7522", "U+8CA0", "U+50B5">>,
     <<"U+8CA1", "U+52D9", "U+72C0", "U+6CC1">>,
     <<"b", "a", "l", "a", "n", "c", "e">>,
     <<"p", "o", "s", "i", "t", "i", "o", "n">>}

(* keywords of _is_cashflow_statement *)
CashflowKeywords ==
    {<<"U+73FE", "U+91D1", "U+6D41">>,
     <<"c", "a", "s", "h", " ", "f", "l", "o", "w">>,
     <<"c", "a", "s", "h", " ", "f", "l", "o", "w", "s">>}

(* any(keyword in text for keyword in keywords) *)
_is_income_statement(text) == \E keyword \in IncomeKeywords : Contains(text, keyword)

_is_balance_sheet(text) == \E keyword \in BalanceKeywords : Contains(text, keyword)

_is_cashflow_statement(text) == \E keyword \in CashflowKeywords : Contains(text, keyword)

(* A variant of the loop body with three separate `if`s, so that a table *)
(* goes to every class whose keywords it holds.                          *)
ClassifySectionEveryClass(statements, section) ==
    IF section.type = "table" /\ section.raw_data # None
    THEN LET df == section.raw_data
             table_content == Lower(section.content)
         IN [income |-> IF _is_income_statement(table_content)
                        THEN df ELSE statements.income,
             balance |-> IF _is_balance_sheet(table_content)
                         THEN df ELSE statements.balance,
             cashflow |-> IF _is_cashflow_statement(table_content)
                          THEN df ELSE statements.cashflow]
    ELSE statements

(* A variant of the loop body that tests the classes in the order        *)
(* cashflow, balance, income.                                            *)
ClassifySectionReverseOrder(statements, section) ==
    IF section.type = "table" /\ section.raw_data # None
    THEN LET df == section.raw_data
             table_content == Lower(section.content)
         IN IF _is_cashflow_statement(table_content)
            THEN [statements EXCEPT !.cashflow = df]
            ELSE IF _is_balance_sheet(table_content)
            THEN [statements EXCEPT !.balance = df]
            ELSE IF _is_income_statement(table_content)
            THEN [statements EXCEPT !.income = df]
            ELSE statements
    ELSE statements

(* The body of `for section in report.sections`: the if / elif / elif chain. *)
ClassifySection(statements, section) ==
    IF section.type = "table" /\ section.raw_data # None
    THEN LET df == section.raw_data
             table_content == Lower(section.content)
         IN IF _is_income_statement(table_content)
            THEN [statements EXCEPT !.income = df]
            ELSE IF _is_balance_sheet(table_content)
            THEN [statements EXCEPT !.balance = df]
            ELSE IF _is_cashflow_statement(table_content)
            THEN [statements EXCEPT !.cashflow = df]
            ELSE statements
    ELSE statements

RECURSIVE ClassifySections(_, _)
ClassifySections(statements, sections) ==
    IF sections = <<>> THEN statements
    ELSE ClassifySections(ClassifySection(statements, Head(sections)),
                          Tail(sections))

extract_financial_statements(report) ==
    ClassifySections([income |-> EmptyDataFrame,
                      balance |-> EmptyDataFrame,
                      cashflow |-> EmptyDataFrame],
                     report.sections)

(* '\n'.join(lines) *)
RECURSIVE JoinLines(_)
JoinLines(lines) ==
    IF lines = <<>> THEN <<>>
    ELSE IF Len(lines) = 1 THEN lines[1]
    ELSE lines[1] \o <<"\n">> \o JoinLines(Tail(lines))

(* The Section parse_pdf appends for table number table_idx + 1 of page 1: *)
(* content = f"表格 {table_idx + 1}: {df.to_string()}".                    *)
ParsedTable(table_idx, df) ==
    TableSection(<<"U+8868", "U+683C", " ">> \o IntToStr(table_idx + 1)
                     \o <<":", " ">> \o JoinLines(df.lines),
                 "p1_t" \o ToString(table_idx + 1),
                 df)

(* Inputs: renderings of tables, by the statement classes they hold       *)
(* keywords of.                                                           *)
MaxTables == 3

StatementFrames ==
    {DataFrame(<<<<"U+7D9C", "U+5408", "U+640D", "U+76CA", "U+8868">>>>),
     DataFrame(<<<<"B", "a", "l", "a", "n", "c", "e", " ", "S", "h", "e", "e", "t">>>>),
     DataFrame(<<<<"U+73FE", "U+91D1", "U+6D41", "U+91CF", "U+8868">>>>),
     DataFrame(<<<<"U+640D", "U+76CA", "U+53CA", "U+73FE", "U+91D1", "U+6D41", "U+91CF">>>>),
     DataFrame(<<<<"F", "i", "n", "a", "n", "c", "i", "a", "l", " ", "P", "o", "s", "i", "t", "i", "o", "n">>,
                 <<"C", "a", "s", "h", " ", "F", "l", "o", "w", "s">>>>),
     DataFrame(<<<<"U+9644", "U+8A3B">>>>)}

ClassifierSections ==
    {ParsedTable(0, df) : df \in StatementFrames}
    \cup {TextSection(<<"income", "statement">>, "p1")}

ClassifierReports ==
    {Report(CompanyA, 2023, sections) :
         sections \in SeqsUpTo(ClassifierSections, MaxTables)}

InitClassify ==
    /\ Parked
    /\ arg \in ClassifierReports
    /\ res = <<>>
    /\ pc = "call"

ExtractFinancialStatements ==
    /\ pc = "call"
    /\ res' = extract_financial_statements(arg)
    /\ pc' = "done"
    /\ UNCHANGED <<environment, store, ret, arg>>

NextClassify == ExtractFinancialStatements

SpecClassify == InitClassify /\ [][NextClassify]_vars

(* ------------------------------------------------------------------ *)
(* parse_pdf.py: parse_pdf                                             *)
(*                                                                     *)
(* A PDF file is kept by what pdfplumber gives for it: whether it      *)
(* opens, and for each page the outcome of extract_text() and of       *)
(* extract_tables().  A page text is a sequence of characters, a table *)
(* the sequence of its rows.                                           *)
(* ------------------------------------------------------------------ *)

Whitespace == {" ", "\n", "\t"}

(* The length of the leading run of characters outside `set`. *)
RECURSIVE RunLengthOutside(_, _)
RunLengthOutside(s, set) ==
    IF s = <<>> \/ Head(s) \in set THEN 0
    ELSE 1 + RunLengthOutside(Tail(s), set)

LStrip(s) == SubSeq(s, RunLength(s, Whitespace) + 1, Len(s))

RECURSIVE RStrip(_)
RStrip(s) ==
    IF s # <<>> /\ s[Len(s)] \in Whitespace
    THEN RStrip(SubSeq(s, 1, Len(s) - 1))
    ELSE s

(* str.strip() *)
Strip(s) == RStrip(LStrip(s))

(* text.split('\n') *)
RECURSIVE SplitLines(_)
SplitLines(text) ==
    LET n == RunLengthOutside(text, {"\n"})
    IN IF n = Len(text) THEN <<text>>
       ELSE <<SubSeq(text, 1, n)>> \o SplitLines(SubSeq(text, n + 2, Len(text)))

(* text.split(): the whitespace-delimited words, each as a string. *)
RECURSIVE Str(_)
Str(chars) == IF chars = <<>> THEN "" ELSE Head(chars) \o Str(Tail(chars))

RECURSIVE SplitWords(_)
SplitWords(text) ==
    LET rest == LStrip(text)
        n == RunLengthOutside(rest, Whitespace)
    IN IF rest = <<>> THEN <<>>
       ELSE <<Str(SubSeq(rest, 1, n))>>
            \o SplitWords(SubSeq(rest, n + 1, Len(rest)))

(* len(text.strip()) > 20 *)
MinPageTextLen == 20

(* f"第{page_num + 1}頁" *)
PageRef(page_num) == "p" \o ToString(page_num + 1)

(* The TEXT Section of a page: content = text.strip(); `words` is the *)
(* content.split() the chunker takes from it.                         *)
PageTextSection(text, page_num) ==
    [type |-> "text", content |-> Strip(text), words |-> SplitWords(Strip(text)),
     page_ref |-> PageRef(page_num), raw_data |-> None]

(* The TABLE Section of table number table_idx + 1 of a page; the frame  *)
(* pd.DataFrame(table[1:], columns=table[0]) renders the rows of `table`. *)
PageTableSection(table, page_num, table_idx) ==
    TableSection(<<"U+8868", "U+683C", " ">> \o IntToStr(table_idx + 1)
                     \o <<":", " ">> \o JoinLines(table),
                 PageRef(page_num) \o "_t" \o ToString(table_idx + 1),
                 DataFrame(table))

(* for table_idx, table in enumerate(tables): if table and len(table) > 1 *)
RECURSIVE PageTables(_, _, _, _)
PageTables(tables, page_num, table_idx, sections) ==
    IF table_idx >= Len(tables) THEN sections
    ELSE PageTables(tables, page_num, table_idx + 1,
                    IF Len(tables[table_idx + 1]) > 1
                    THEN Append(sections,
                                PageTableSection(tables[table_idx + 1],
                                                 page_num, table_idx))
                    ELSE sections)

(* The page loop inside `try`: sections is appended to in place, so what  *)
(* was appended before an exception stays; raised tells whether the body *)
(* ended by an exception.                                                *)
RECURSIVE ScanPages(_, _, _)
ScanPages(pages, page_num, sections) ==
    IF page_num >= Len(pages) THEN [raised |-> FALSE, sections |-> sections]
    ELSE LET page == pages[page_num + 1]
             with_text ==
                 IF Len(Strip(page.text)) > MinPageTextLen
                 THEN Append(sections, PageTextSection(page.text, page_num))
                 ELSE sections
         IN IF page.text_raises
            THEN [raised |-> TRUE, sections |-> sections]
            ELSE IF page.tables_raises
            THEN [raised |-> TRUE, sections |-> with_text]
            ELSE ScanPages(pages, page_num + 1,
                           PageTables(page.tables, page_num, 0, with_text))

(* with pdfplumber.open(pdf_path) as pdf: ... *)
ParseBody(pdf) ==
    IF ~pdf.opens THEN [raised |-> TRUE, sections |-> <<>>]
    ELSE ScanPages(pdf.pages, 0, <<>>)

(* ['股份有限公司', 'Corporation', 'Inc.', 'Ltd', '公司'] *)
CompanyMarkers ==
    {<<"U+80A1", "U+4EFD", "U+6709", "U+9650", "U+516C", "U+53F8">>,
     <<"C", "o", "r", "p", "o", "r", "a", "t", "i", "o", "n">>,
     <<"I", "n", "c", ".">>,
     <<"L", "t", "d">>,
     <<"U+516C", "U+53F8">>}

(* "未知公司" *)
UnknownCompany == <<"U+672A", "U+77E5", "U+516C", "U+53F8">>

(* sections[:5] *)
FirstSections == 5

(* lines[:10] *)
FirstLines == 10

(* for line in lines[:10]: <<name>> at the first line holding a marker, *)
(* <<>> when the loop ends without one.                                 *)
RECURSIVE NameInLines(_, _)
NameInLines(lines, k) ==
    IF k > Min(FirstLines, Len(lines)) THEN <<>>
    ELSE IF \E keyword \in CompanyMarkers : Contains(lines[k], keyword)
    THEN <<Strip(lines[k])>>
    ELSE NameInLines(lines, k + 1)

(* for section in sections[:5] *)
RECURSIVE NameInSections(_, _)
NameInSections(sections, k) ==
    IF k > Min(FirstSections, Len(sections)) THEN UnknownCompany
    ELSE IF /\ sections[k].type = "text"
            /\ NameInLines(SplitLines(sections[k].content), 1) # <<>>
    THEN NameInLines(SplitLines(sections[k].content), 1)[1]
    ELSE NameInSections(sections, k + 1)

_extract_company_name(sections) == NameInSections(sections, 1)

(* A variant whose except clause lets the exception out. *)
parse_pdf_reraising(pdf, company, fiscal_year) ==
    LET body == ParseBody(pdf)
        name == IF company = <<>> THEN _extract_company_name(body.sections)
                ELSE company
    IN [raised |-> body.raised,
        report |-> Report(name, fiscal_year, body.sections)]

(* parse_pdf: `except Exception` ends the try statement normally, and the *)
(* statements after it build the Report from the sections gathered so far. *)
parse_pdf(pdf, company, fiscal_year) ==
    LET body == ParseBody(pdf)
        name == IF company = <<>> THEN _extract_company_name(body.sections)
                ELSE company
    IN [raised |-> FALSE,
        report |-> Report(name, fiscal_year, body.sections)]

(* Inputs: page texts and tables. *)
MaxPages == 3

ShortText == <<" ", " ", "P", "a", "g", "e", " ", "3", " ", "\n">>

NameText ==
    <<"A", "n", "n", "u", "a", "l", " ", "R", "e", "p", "o", "r", "t",
    " ", "2", "0", "2", "3", "\n", " ", " ", "A", "c", "m", "e", " ",
    "H", "o", "l", "d", "i", "n", "g", "s", " ", "L", "t", "d">>

LongText ==
    <<"T", "h", "e", " ", "g", "r", "o", "u", "p", " ", "r", "e", "p",
    "o", "r", "t", "e", "d", " ", "h", "i", "g", "h", "e", "r", " ",
    "r", "e", "v", "e", "n", "u", "e", " ", "a", "n", "d", " ", "p",
    "r", "o", "f", "i", "t", " ", "f", "o", "r", " ", "t", "h", "e",
    " ", "f", "i", "n", "a", "n", "c", "i", "a", "l", " ", "y", "e",
    "a", "r">>

LateNameText ==
    <<"1", "\n", "2", "\n", "3", "\n", "4", "\n", "5", "\n", "6", "\n",
    "7", "\n", "8", "\n", "9", "\n", "1", "0", "\n", "B", "e", "t",
    "a", " ", "I", "n", "c", ".">>

DataTable == <<<<"i", "t", "e", "m", " ", "a", "m", "o", "u", "n", "t">>,
               <<"r", "e", "v", "e", "n", "u", "e", " ", "1", ",", "2", "3", "4", ",", "5", "6", "7">>>>

HeaderOnlyTable == <<<<"i", "t", "e", "m", " ", "a", "m", "o", "u", "n", "t">>>>

Page(text, tables) ==
    [text_raises |-> FALSE, text |-> text, tables_raises |-> FALSE, tables |-> tables]

(* extract_text() raises. *)
TextFailurePage ==
    [text_raises |-> TRUE, text |-> <<>>, tables_raises |-> FALSE, tables |-> <<>>]

(* extract_tables() raises after the page text was taken. *)
TablesFailurePage(text) ==
    [text_raises |-> FALSE, text |-> text, tables_raises |-> TRUE, tables |-> <<>>]

Pages ==
    {Page(LongText, <<>>),
     Page(NameText, <<>>),
     Page(<<>>, [i \in 1..FirstSections |-> DataTable]),
     Page(ShortText, <<HeaderOnlyTable, DataTable>>),
     Page(LateNameText, <<DataTable>>),
     TextFailurePage,
     TablesFailurePage(LongText)}

PdfFiles ==
    {[opens |-> FALSE, pages |-> <<>>]}
    \cup {[opens |-> TRUE, pages |-> pages] : pages \in SeqsUpTo(Pages, MaxPages)}

CompanyHints == {<<>>, CompanyA}

FiscalYears == {2023, 2024}

InitParse ==
    /\ Parked
    /\ arg \in [pdf : PdfFiles, company : CompanyHints, fiscal_year : FiscalYears]
    /\ res = <<>>
    /\ pc = "call"

ParsePdf ==
    /\ pc = "call"
    /\ res' = parse_pdf(arg.pdf, arg.company, arg.fiscal_year)
    /\ pc' = "parsed"
    /\ UNCHANGED <<environment, store, ret, arg>>

(* slice_content_for_search on the Report parse_pdf returned. *)
SliceParsedReport ==
    /\ pc = "parsed"
    /\ \E chunk_size \in ChunkSizes :
           res' = [raised |-> res.raised, report |-> res.report,
                   chunk_size |-> chunk_size,
                   chunks |-> slice_content_for_search(res.report, chunk_size)]
    /\ pc' = "sliced"
    /\ UNCHANGED <<environment, store, ret, arg>>

NextParse == ParsePdf \/ SliceParsedReport

SpecParse == InitParse /\ [][NextParse]_vars

(* ------------------------------------------------------------------ *)
(* embed_retrieval.py: EmbeddingService, call by call                  *)
(*                                                                     *)
(* The outcome of one genai.embed_content call is either an exception  *)
(* or an answer vector; embed_text(text) above is the set of the       *)
(* values below over all outcomes.                                     *)
(* ------------------------------------------------------------------ *)

Failure == [fails |-> TRUE, vector |-> <<>>]

Answer(vector) == [fails |-> FALSE, vector |-> vector]

BackendOutcomes == {Failure} \cup {Answer(vector) : vector \in RealVectors}

(* embed_text for a given outcome of the backend call, which is made only *)
(* when the service is available.                                         *)
embed_text_given(text, outcome) ==
    IF ~is_available THEN _generate_mock_embedding(text)
    ELSE IF outcome.fails THEN _generate_mock_embedding(text)
    ELSE outcome.vector

(* A variant of embed_query whose mock vector is seeded by the hash of   *)
(* the query plus one.                                                  *)
embed_query_given_own_seed(query, outcome) ==
    IF ~is_available \/ outcome.fails
    THEN SeededUnitVector(Mod2Pow32(hashfn[query] + 1))
    ELSE outcome.vector

(* embed_query: the same but for task_type="retrieval_query". *)
embed_query_given(query, outcome) ==
    IF ~is_available THEN _generate_mock_embedding(query)
    ELSE IF outcome.fails THEN _generate_mock_embedding(query)
    ELSE outcome.vector

(* A variant of the batch loop that ends at the first failing text. *)
RECURSIVE embed_batch_stopping_at_failure(_, _)
embed_batch_stopping_at_failure(texts, outcomes) ==
    IF texts = <<>> \/ (is_available /\ Head(outcomes).fails) THEN <<>>
    ELSE <<embed_text_given(Head(texts), Head(outcomes))>>
         \o embed_batch_stopping_at_failure(Tail(texts), Tail(outcomes))

(* embed_batch for given outcomes of the backend calls, one per text:    *)
(* embed_text never answers None, so its vector is appended every time.  *)
RECURSIVE embed_batch_given(_, _)
embed_batch_given(texts, outcomes) ==
    IF texts = <<>> THEN <<>>
    ELSE <<embed_text_given(Head(texts), Head(outcomes))>>
         \o embed_batch_given(Tail(texts), Tail(outcomes))

MaxTexts == 3

Texts == DOMAIN (CHOOSE h \in HashFunctions : TRUE)

BatchInputs ==
    UNION {[texts : [1..n -> Texts], outcomes : [1..n -> BackendOutcomes]] :
               n \in 0..MaxTexts}

(* A process with or without the real backend, and its hash function. *)
ServiceStarted ==
    /\ faiss = FALSE
    /\ client \in BOOLEAN
    /\ hashfn \in HashFunctions
    /\ index = None
    /\ chunks = <<>>
    /\ dimension = InitialDimension
    /\ built = <<>>
    /\ ret = Idle

InitBatch ==
    /\ ServiceStarted
    /\ arg \in BatchInputs
    /\ res = <<>>
    /\ pc = "call"

EmbedBatch ==
    /\ pc = "call"
    /\ res' = embed_batch_given(arg.texts, arg.outcomes)
    /\ pc' = "done"
    /\ UNCHANGED <<environment, store, ret, arg>>

NextBatch == EmbedBatch

SpecBatch == InitBatch /\ [][NextBatch]_vars

(* A session of embed_text and embed_query calls; res is the record of *)
(* the calls made so far.                                              *)
MaxCalls == 3

InitEmbed ==
    /\ ServiceStarted
    /\ arg = <<>>
    /\ res = <<>>
    /\ pc = "session"

EmbedText ==
    /\ Len(res) < MaxCalls
    /\ \E text \in Texts, outcome \in BackendOutcomes :
           res' = Append(res, [op |-> "embed_text", text |-> text,
                               outcome |-> outcome,
                               value |-> embed_text_given(text, outcome)])
    /\ UNCHANGED <<environment, store, ret, arg, pc>>

EmbedQuery ==
    /\ Len(res) < MaxCalls
    /\ \E query \in Texts, outcome \in BackendOutcomes :
           res' = Append(res, [op |-> "embed_query", text |-> query,
                               outcome |-> outcome,
                               value |-> embed_query_given(query, outcome)])
    /\ UNCHANGED <<environment, store, ret, arg, pc>>

NextEmbed == EmbedText \/ EmbedQuery

SpecEmbed == InitEmbed /\ [][NextEmbed]_vars

(* ------------------------------------------------------------------ *)
(* embed_retrieval.py: SemanticSearchEngine with the flat results kept *)
(* ------------------------------------------------------------------ *)

(* The mapping search_semantic makes of the flat results of its search. *)
GroupedOf(results) ==
    IF results = <<>> THEN EmptyDict ELSE GroupResults(results, EmptyDict)

(* A company name with an underscore in it. *)
CompanyAB == <<"A", "_", "B">>

GroupingReports ==
    {Report(CompanyA, 2023, TableOnly), Report(CompanyAB, 2024, TableOnly)}

GroupingReportLists == SeqsUpTo(GroupingReports, MaxReports)

(* initialize_from_reports(reports); arg keeps the reports. *)
InitializeFromReportsKept ==
    /\ \E reports \in GroupingReportLists :
           /\ build_index("initialize_from_reports", AllChunks(reports))
           /\ arg' = reports
    /\ UNCHANGED <<environment, res, pc>>

(* search_semantic(query, top_k); res keeps the flat results of its *)
(* search next to the mapping returned.                             *)
SearchSemanticKept ==
    /\ \E query \in Queries, top_k \in 1..MaxTopK :
           \E results \in search(query, top_k) :
               /\ GroupedOf(results) \in search_semantic(query, top_k)
               /\ ret' = Returned("search_semantic",
                                  [query |-> query, top_k |-> top_k],
                                  GroupedOf(results))
               /\ res' = [results |-> results, grouped |-> GroupedOf(results)]
    /\ UNCHANGED <<environment, store, arg, pc>>

NextGrouping ==
    \/ InitializeFromReportsKept
    \/ SearchSemanticKept

SpecGrouping == Init /\ [][NextGrouping]_vars

(* ------------------------------------------------------------------ *)
(* core/llm.py: GeminiLLMClient.generate_company_answer                *)
(*                                                                     *)
(* GeminiLLMClient.client is set under the condition of                *)
(* EmbeddingService.client (an API key and the genai package), so the  *)
(* variable client tells the availability of both.  Answers are given  *)
(* in English, confidence in tenths.                                   *)
(* ------------------------------------------------------------------ *)

(* QueryResponse *)
QueryResponse(company, query, answer, sources, confidence) ==
    [company |-> company, query |-> query, answer |-> answer,
     sources |-> sources, confidence |-> confidence]

(* "LLM 服務不可用，請檢查 API 設定" *)
UnavailableAnswer == "LLM service unavailable, check the API settings"

(* f"生成回答時發生錯誤: {str(e)}" *)
ErrorAnswer(e) == "error while generating the answer: " \o e

(* chunk['text'][:500] *)
MaxContextChars == 500

Truncate(text, n) == IF Len(text) <= n THEN text ELSE SubSeq(text, 1, n)

(* context_chunks[:3] *)
MaxPromptChunks == 3

(* The prompt: company, query and "\n\n".join of the truncated texts of *)
(* the first three chunks.                                              *)
Prompt(company, query, context_chunks) ==
    [company |-> company, query |-> query,
     context_text |->
         [i \in 1..Min(MaxPromptChunks, Len(context_chunks)) |->
              Truncate(context_chunks[i].text, MaxContextChars)]]

(* The orders list(set(sources)) can give. *)
ListOfSet(S) == {order \in [1..Cardinality(S) -> S] : Range(order) = S}

(* [chunk.get('page_ref', '') for chunk in context_chunks] *)
PageRefs(context_chunks) ==
    [i \in DOMAIN context_chunks |-> Get(context_chunks[i], "page_ref", "")]

(* A variant with sources=sources, the list with its repetitions. *)
generate_company_answer_listing_all(company, query, context_chunks, outcome) ==
    IF ~client
    THEN {[raised |-> FALSE,
           value |-> QueryResponse(company, query, UnavailableAnswer, <<>>, 0)]}
    ELSE IF outcome.fails
    THEN {[raised |-> FALSE,
           value |-> QueryResponse(company, query, ErrorAnswer(outcome.text), <<>>, 0)]}
    ELSE {[raised |-> FALSE,
           value |-> QueryResponse(company, query, outcome.text,
                                   PageRefs(context_chunks), 8)]}

(* The responses generate_company_answer can return when the call      *)
(* self.client.generate_content(prompt) ends as `outcome` tells: it is *)
(* made inside try / except Exception, after the prompt is built; the  *)
(* prompt is built outside the try and reads chunk['text'], a KeyError *)
(* for a dict without that key.                                        *)
generate_company_answer(company, query, context_chunks, outcome) ==
    IF ~client
    THEN {[raised |-> FALSE,
           value |-> QueryResponse(company, query, UnavailableAnswer, <<>>, 0)]}
    ELSE IF \E i \in 1..Min(MaxPromptChunks, Len(context_chunks)) :
                "text" \notin DOMAIN context_chunks[i]
    THEN {[raised |-> TRUE, value |-> <<>>]}
    ELSE IF outcome.fails
    THEN {[raised |-> FALSE,
           value |-> QueryResponse(company, query,
                                   ErrorAnswer(outcome.text), <<>>, 0)]}
    ELSE {[raised |-> FALSE,
           value |-> QueryResponse(company, query, outcome.text, sources, 8)] :
              sources \in ListOfSet(Range(PageRefs(context_chunks)))}

MaxContext == 3

(* Search results handed over as context: every Chunk and every search *)
(* result has a text; the last has no page_ref.                        *)
ContextPool ==
    {[text |-> TableText, page_ref |-> "p1_t1"],
     [text |-> PageText, page_ref |-> "p1"],
     [text |-> "profit"]}

(* The ends of self.client.generate_content(prompt): an exception with *)
(* its message, or a response with its text.                           *)
GenerationOutcomes ==
    {[fails |-> TRUE, text |-> "quota exceeded"],
     [fails |-> FALSE, text |-> "revenue was 1,234,567"]}

InitAnswer ==
    /\ ServiceStarted
    /\ arg \in [company : {CompanyA}, query : {"revenue"},
                context_chunks : SeqsUpTo(ContextPool, MaxContext),
                outcome : GenerationOutcomes]
    /\ res = <<>>
    /\ pc = "call"

GenerateCompanyAnswer ==
    /\ pc = "call"
    /\ res' \in generate_company_answer(arg.company, arg.query,
                                        arg.context_chunks, arg.outcome)
    /\ pc' = "done"
    /\ UNCHANGED <<environment, store, ret, arg>>

NextAnswer == GenerateCompanyAnswer

SpecAnswer == InitAnswer /\ [][NextAnswer]_vars

(* ------------------------------------------------------------------ *)
(* metrics.py: extract_key_figures                                     *)
(* ------------------------------------------------------------------ *)

(* figures = {} *)
NoFigures == [k \in {} |-> 0]

(* df.empty *)
IsEmptyFrame(df) == df.lines = <<>>

(* `if revenue: figures['revenue'] = revenue` for the amount found, None *)
(* being <<>>; an amount found is above 1000, so it is never falsy.      *)
PutFound(figures, key, found) == Put(figures, found # <<>>, key, found[1])

_extract_from_income_statement(df) ==
    PutFound(PutFound(NoFigures, "revenue",
                      _find_amount_by_keywords(df.lines, account_keywords.zh.revenue)),
             "net_income",
             _find_amount_by_keywords(df.lines, account_keywords.zh.net_income))

(* A balance sheet extractor that looks for total liabilities as well. *)
_extract_from_balance_sheet_with_liabilities(df) ==
    PutFound(PutFound(PutFound(NoFigures, "total_assets",
                               _find_amount_by_keywords(
                                   df.lines, account_keywords.zh.total_assets)),
                      "total_liabilities",
                      _find_amount_by_keywords(
                          df.lines, account_keywords.zh.total_liabilities)),
             "shareholders_equity",
             _find_amount_by_keywords(df.lines,
                                      account_keywords.zh.shareholders_equity))

_extract_from_balance_sheet(df) ==
    PutFound(PutFound(NoFigures, "total_assets",
                      _find_amount_by_keywords(df.lines,
                                               account_keywords.zh.total_assets)),
             "shareholders_equity",
             _find_amount_by_keywords(df.lines,
                                      account_keywords.zh.shareholders_equity))

_extract_from_cashflow_statement(df) ==
    PutFound(NoFigures, "operating_cash_flow",
             _find_amount_by_keywords(df.lines,
                                      account_keywords.zh.operating_cash_flow))

extract_key_figures(report, statements) ==
    LET income == IF IsEmptyFrame(statements.income) THEN NoFigures
                  ELSE _extract_from_income_statement(statements.income)
        balance == IF IsEmptyFrame(statements.balance) THEN NoFigures
                   ELSE _extract_from_balance_sheet(statements.balance)
        cashflow == IF IsEmptyFrame(statements.cashflow) THEN NoFigures
                    ELSE _extract_from_cashflow_statement(statements.cashflow)
    IN Update(Update(income, balance), cashflow)

(* ------------------------------------------------------------------ *)
(* app_simple.py: extract_financial_data                               *)
(*                                                                     *)
(* An upload is a file with the company name typed for it and with     *)
(* what happens to it: whether saving it to its temporary file raises, *)
(* whether a statement of the try block raises before the append,      *)
(* whether os.unlink raises.                                           *)
(* ------------------------------------------------------------------ *)

(* parser.parse_pdf(temp_file_path, company_name, 2024) *)
UploadFiscalYear == 2024

(* The extractor gives amounts in thousandths, the ratio engine takes *)
(* them in units; the amounts of the uploads are whole.               *)
InUnits(figures) == [k \in DOMAIN figures |-> figures[k] \div 1000]

MaxUploads == 3

(* A one-page file with an income statement, and a file that does not open. *)
StatementTable ==
    <<<<"i", "n", "c", "o", "m", "e", " ", "s", "t", "a", "t", "e", "m", "e", "n", "t">>,
      <<"U+71DF", "U+696D", "U+6536", "U+5165", " ", "5", ",", "0", "0", "0">>,
      <<"U+672C", "U+671F", "U+6DE8", "U+5229", " ", "2", ",", "0", "0", "0">>>>

StatementFile == [opens |-> TRUE, pages |-> <<Page(<<>>, <<StatementTable>>)>>]

BrokenFile == [opens |-> FALSE, pages |-> <<>>]

Upload(file, company_name, save_fails, try_fails, unlink_fails) ==
    [file |-> file, company_name |-> company_name, save_fails |-> save_fails,
     try_fails |-> try_fails, unlink_fails |-> unlink_fails]

Uploads ==
    {Upload(named[1], named[2], fails[1], fails[2], fails[3]) :
         named \in {<<StatementFile, CompanyA>>, <<BrokenFile, CompanyB>>},
         fails \in {<<FALSE, FALSE, FALSE>>, <<TRUE, FALSE, FALSE>>,
                    <<FALSE, TRUE, FALSE>>, <<FALSE, FALSE, TRUE>>}}

(* The files of the model with the company names typed for them. *)
NamedFiles ==
    {<<StatementFile, CompanyA>>, <<BrokenFile, CompanyB>>,
     <<StatementFile, CompanyB>>}

(* A function over a finite domain as the explicit table of its values, *)
(* each value computed once.                                            *)
Table(f) == f @@ <<>>

(* Lines 87-101, statement by statement, for each named file:          *)
(* report = parser.parse_pdf(temp_file_path, company_name, 2024)       *)
UploadReportOf ==
    Table([named \in NamedFiles |->
         parse_pdf(named[1], named[2], UploadFiscalYear).report])

(* statements = parser.extract_financial_statements(report) *)
UploadStatementsOf ==
    Table([named \in NamedFiles |->
               extract_financial_statements(UploadReportOf[named])])

(* figures = calculator.extract_key_figures(report, statements) *)
UploadFiguresOf ==
    Table([named \in NamedFiles |->
         extract_key_figures(UploadReportOf[named], UploadStatementsOf[named])])

(* metrics = calculator.calculate_ratios(figures) *)
UploadRatiosOf ==
    Table([named \in NamedFiles |->
               calculate_ratios(InUnits(UploadFiguresOf[named]))])

(* metrics.company = company_name: the CompanyMetrics appended for an *)
(* upload.                                                            *)
UploadMetrics(upload) ==
    [UploadRatiosOf[<<upload.file, upload.company_name>>]
         EXCEPT !.company = upload.company_name]

(* st.session_state.company_metrics, created on the first append. *)
AppendMetrics(session, metrics) ==
    [k \in DOMAIN session \cup {"company_metrics"} |->
         IF k = "company_metrics"
         THEN Append(Get(session, "company_metrics", <<>>), metrics)
         ELSE session[k]]

(* One iteration of the loop for upload number i; the temporary file of *)
(* upload i is named i.  The file is created before it is written, the  *)
(* append is skipped when the try block raises, the file stays when the *)
(* write or os.unlink raises; state.raised tells that an exception left *)
(* the function.                                                        *)
ProcessUpload(state, upload, i) ==
    [session |-> IF upload.save_fails \/ upload.try_fails THEN state.session
                 ELSE AppendMetrics(state.session, UploadMetrics(upload)),
     temp_files |-> IF upload.save_fails \/ upload.unlink_fails
                    THEN state.temp_files \cup {i}
                    ELSE state.temp_files,
     raised |-> upload.save_fails \/ upload.unlink_fails,
     attempted |-> i]

(* for i, (file, company_name) in enumerate(zip(...)) *)
RECURSIVE ProcessUploads(_, _, _)
ProcessUploads(state, uploads, i) ==
    IF i > Len(uploads) \/ state.raised THEN state
    ELSE ProcessUploads(ProcessUpload(state, uploads[i], i), uploads, i + 1)

extract_financial_data(session, uploads) ==
    ProcessUploads([session |-> session, temp_files |-> {},
                    raised |-> FALSE, attempted |-> 0],
                   uploads, 1)

(* st.session_state before the click: fresh, or with the metrics of an *)
(* earlier click.                                                      *)
NoSession == [k \in {} |-> <<>>]

Sessions ==
    {NoSession,
     AppendMetrics(NoSession,
                   UploadMetrics(Upload(StatementFile, CompanyB, FALSE, FALSE, FALSE)))}

InitUpload ==
    /\ Parked
    /\ arg \in [session : Sessions, uploads : SeqsUpTo(Uploads, MaxUploads)]
    /\ res = <<>>
    /\ pc = "call"

ExtractFinancialData ==
    /\ pc = "call"
    /\ res' = extract_financial_data(arg.session, arg.uploads)
    /\ pc' = "done"
    /\ UNCHANGED <<environment, store, ret, arg>>

NextUpload == ExtractFinancialData

SpecUpload == InitUpload /\ [][NextUpload]_vars

(* ------------------------------------------------------------------ *)
(* app_simple.py lines 89-95: parse, classify, extract, calculate, one *)
(* statement of the try block per step.                                *)
(* ------------------------------------------------------------------ *)

MaxPipelineTables == 3

BalanceTable ==
    <<<<"b", "a", "l", "a", "n", "c", "e", " ", "s", "h", "e", "e", "t">>,
      <<"U+7E3D", "U+8CC7", "U+7522", " ", "8", ",", "0", "0", "0">>,
      <<"U+7E3D", "U+8CA0", "U+50B5", " ", "4", ",", "0", "0", "0">>,
      <<"U+80A1", "U+6771", "U+6B0A", "U+76CA", " ", "4", ",", "0", "0", "0">>>>

(* A balance sheet that states the liabilities only. *)
LiabilitiesTable ==
    <<<<"b", "a", "l", "a", "n", "c", "e", " ", "s", "h", "e", "e", "t">>,
      <<"U+8CA0", "U+50B5", "U+7E3D", "U+984D", " ", "4", ",", "0", "0", "0">>>>

CashflowTable ==
    <<<<"c", "a", "s", "h", " ", "f", "l", "o", "w">>,
      <<"U+71DF", "U+696D", "U+6D3B", "U+52D5", "U+73FE", "U+91D1", "U+6D41", "U+91CF",
        " ", "3", ",", "0", "0", "0">>>>

PipelineTables == {StatementTable, BalanceTable, LiabilitiesTable, CashflowTable}

(* One-page files with up to MaxPipelineTables tables, and the file *)
(* that does not open.                                              *)
PipelineFiles ==
    {[opens |-> TRUE, pages |-> <<Page(<<>>, tables)>>] :
         tables \in SeqsUpTo(PipelineTables, MaxPipelineTables)}
        \cup {BrokenFile}

InitPipeline ==
    /\ Parked
    /\ arg \in [file : PipelineFiles, company_name : {CompanyA}]
    /\ res = <<>>
    /\ pc = "call"

(* report = parser.parse_pdf(temp_file_path, company_name, 2024) *)
PipelineParse ==
    /\ pc = "call"
    /\ res' = [report |-> parse_pdf(arg.file, arg.company_name,
                                    UploadFiscalYear).report]
    /\ pc' = "parsed"
    /\ UNCHANGED <<environment, store, ret, arg>>

(* statements = parser.extract_financial_statements(report) *)
PipelineClassify ==
    /\ pc = "parsed"
    /\ res' = [report |-> res.report,
               statements |-> extract_financial_statements(res.report)]
    /\ pc' = "classified"
    /\ UNCHANGED <<environment, store, ret, arg>>

(* figures = calculator.extract_key_figures(report, statements) *)
PipelineExtract ==
    /\ pc = "classified"
    /\ res' = [report |-> res.report, statements |-> res.statements,
               figures |-> extract_key_figures(res.report, res.statements)]
    /\ pc' = "extracted"
    /\ UNCHANGED <<environment, store, ret, arg>>

(* metrics = calculator.calculate_ratios(figures) *)
PipelineRatios ==
    /\ pc = "extracted"
    /\ res' = [report |-> res.report, statements |-> res.statements,
               figures |-> res.figures,
               metrics |-> calculate_ratios(InUnits(res.figures))]
    /\ pc' = "done"
    /\ UNCHANGED <<environment, store, ret, arg>>

NextPipeline ==
    \/ PipelineParse
    \/ PipelineClassify
    \/ PipelineExtract
    \/ PipelineRatios

SpecPipeline == InitPipeline /\ [][NextPipeline]_vars

(* ------------------------------------------------------------------ *)
(* Claims                                                              *)
(* ------------------------------------------------------------------ *)

(* Rows held by the vector index; no index holds no rows. *)
IndexRows == IF index = None THEN 0 ELSE Len(index.rows)

(* C1: in every reachable state of a VectorRetriever the number of stored  *)
(* chunks equals the number of rows of the vector index, and after a build *)
(* that returned true both equal the number of input chunks.               *)
C1_ChunkCountEqualsIndexRows ==
    /\ Len(chunks) = IndexRows
    /\ (ret.op = "build_index" /\ ret.value = TRUE) =>
           /\ Len(chunks) = Len(ret.input)
           /\ IndexRows = Len(ret.input)

(* C2: the chunk_id values slice_content_for_search returns are pairwise   *)
(* distinct: the k-th emitted chunk, text or table, carries number k - 1   *)
(* of the one shared counter.                                              *)
C2_ChunkIdsDistinct ==
    pc = "done" =>
        /\ \A i, j \in DOMAIN res : i # j => res[i].chunk_id # res[j].chunk_id
        /\ \A i \in DOMAIN res :
               res[i].chunk_id =
                   ChunkIdOf(arg.report.report_id, res[i].section_type, i - 1)

(* C2 witness: a report whose text and table sections both emitted chunks. *)
C2_Witness ==
    /\ pc = "done"
    /\ Len(res) >= 3
    /\ \E i, j \in DOMAIN res :
           /\ i < j
           /\ res[i].section_type = "table"
           /\ res[j].section_type = "text"

(* C3: after initialize_from_reports every chunk_id stored in the index is *)
(* unique within that index.                                               *)
C3_IndexChunkIdsUnique ==
    ret.op = "initialize_from_reports" =>
        \A i, j \in DOMAIN chunks : i # j => chunks[i].chunk_id # chunks[j].chunk_id

(* C4: search(query, top_k) returns at most min(top_k, n) results, each    *)
(* built from a chunk stored in the index, in non-increasing order of      *)
(* similarity_score.                                                       *)
C4_SearchBoundedSortedFromIndex ==
    ret.op = "search" =>
        /\ Len(ret.value) <= Min(ret.input.top_k, Len(chunks))
        /\ \A i \in DOMAIN ret.value :
               \E c \in DOMAIN chunks :
                   /\ ret.value[i].chunk_id = chunks[c].chunk_id
                   /\ ret.value[i].text = chunks[c].text
        /\ \A i, j \in DOMAIN ret.value :
               i < j => ret.value[i].similarity_score >= ret.value[j].similarity_score

(* C4 witness: top_k exceeded the chunk count, and the results returned    *)
(* have different scores.                                                  *)
C4_Witness ==
    /\ ret.op = "search"
    /\ ret.input.top_k > Len(chunks)
    /\ Len(ret.value) = Len(chunks)
    /\ Len(ret.value) >= 2
    /\ ret.value[1].similarity_score > ret.value[2].similarity_score

(* C5: while no build has created an index, search returns the empty list  *)
(* and search_semantic the empty mapping; is_ready is false in exactly the *)
(* states where every search returns empty.                                *)
C5_NotReadySearchEmpty ==
    /\ index = None =>
           /\ \A query \in Queries, top_k \in 1..MaxTopK :
                  /\ search(query, top_k) = {<<>>}
                  /\ search_semantic(query, top_k) = {EmptyDict}
           /\ ret.op = "search" => ret.value = <<>>
           /\ ret.op = "search_semantic" => DOMAIN ret.value = {}
    /\ ~is_ready <=>
           \A query \in Queries, top_k \in 1..MaxTopK :
               search(query, top_k) = {<<>>}

(* C5 witness: a search answered while chunks are stored and no index is.  *)
C5_Witness ==
    /\ index = None
    /\ chunks # <<>>
    /\ ret.op = "search_semantic"

(* C6: build_index with an empty list returns false and leaves index,      *)
(* chunks and dimension as they were; a build with non-empty input         *)
(* replaces the stored chunks by its input, and a search returns only      *)
(* chunks of the most recent successful build.                             *)
C6_EmptyBuildKeepsNonEmptyReplaces ==
    [][/\ (ret'.op = "build_index" /\ ret'.input = <<>>) =>
              /\ ret'.value = FALSE
              /\ index' = index
              /\ chunks' = chunks
              /\ dimension' = dimension
       /\ (ret'.op = "build_index" /\ ret'.input # <<>>) =>
              /\ ret'.value = TRUE
              /\ chunks' = ret'.input
              /\ built' = ret'.input
              /\ faiss => Len(index'.rows) = Len(ret'.input)
       /\ ret'.op = "search" =>
              \A i \in DOMAIN ret'.value :
                  \E c \in DOMAIN built' :
                      /\ ret'.value[i].chunk_id = built'[c].chunk_id
                      /\ ret'.value[i].text = built'[c].text]_vars

(* C6 witness: an empty build was refused on a retriever that holds an     *)
(* index and chunks.                                                       *)
C6_Witness ==
    /\ ret.op = "build_index"
    /\ ret.input = <<>>
    /\ ret.value = FALSE
    /\ index # None
    /\ chunks # <<>>

(* The values, in thousandths, of the numeric tokens of a line: the       *)
(* matches of the number pattern that hold a digit.                       *)
NumericValues(line) ==
    {Float(RemoveCommas(FindAll(line)[t]))[1] :
         t \in {t \in DOMAIN FindAll(line) :
                    \E c \in DOMAIN FindAll(line)[t] : FindAll(line)[t][c] \in Digits}}

LargeValues(line) == {v \in NumericValues(line) : v > MinAmount * 1000}

MinOf(S) == CHOOSE m \in S : \A x \in S : m <= x

(* C7: when a statement line holds an alias of the key and a numeric token *)
(* above 1000, a figure is extracted and it is the maximum of the tokens   *)
(* above 1000 of such a line; every extracted figure exceeds 1000.         *)
C7_MaxTokenOfHitLine ==
    pc = "done" =>
        LET aliases == account_keywords.zh[arg.key]
            hits == {i \in DOMAIN arg.text :
                         /\ \E a \in DOMAIN aliases : Contains(arg.text[i], aliases[a])
                         /\ LargeValues(arg.text[i]) # {}}
        IN /\ res # <<>> => res[1] > MinAmount * 1000
           /\ hits # {} =>
                  /\ res # <<>>
                  /\ \E i \in hits : res[1] = Max(LargeValues(arg.text[i]))

(* C8 as stated: the first alias in priority order that is contained in    *)
(* any line determines the result; no lower-priority alias produces the    *)
(* value once a higher-priority alias has hit a line.                      *)
C8_FirstHittingAliasWins ==
    pc = "done" =>
        LET aliases == account_keywords.zh[arg.key]
            hitting == {a \in DOMAIN aliases :
                            \E i \in DOMAIN arg.text : Contains(arg.text[i], aliases[a])}
        IN (res # <<>> /\ hitting # {}) =>
               \E i \in DOMAIN arg.text :
                   /\ Contains(arg.text[i], aliases[MinOf(hitting)])
                   /\ res = LineAmount(arg.text[i])

(* C8 as amended: the first alias in priority order that has a line which  *)
(* holds it and yields an amount determines the result, by the first such  *)
(* line; an alias whose lines yield no amount does not stop the scan; with *)
(* no such alias the result is None.                                       *)
C8_FirstYieldingAliasWins ==
    pc = "done" =>
        LET aliases == account_keywords.zh[arg.key]
            yielding(a) == {i \in DOMAIN arg.text :
                                /\ Contains(arg.text[i], aliases[a])
                                /\ LineAmount(arg.text[i]) # <<>>}
            winners == {a \in DOMAIN aliases : yielding(a) # {}}
        IN IF winners = {} THEN res = <<>>
           ELSE res = LineAmount(arg.text[MinOf(yielding(MinOf(winners)))])

(* C8 witness: a line of a lower-priority alias yields an amount, a later  *)
(* line of a higher-priority alias yields another, and the later one is    *)
(* the result.                                                             *)
C8_Witness ==
    /\ pc = "done"
    /\ res # <<>>
    /\ LET aliases == account_keywords.zh[arg.key]
       IN \E i, j \in DOMAIN arg.text, high, low \in DOMAIN aliases :
              /\ i < j
              /\ high < low
              /\ Contains(arg.text[i], aliases[low])
              /\ \A a \in 1..high : ~Contains(arg.text[i], aliases[a])
              /\ LineAmount(arg.text[i]) # <<>>
              /\ Contains(arg.text[j], aliases[high])
              /\ res = LineAmount(arg.text[j])
              /\ res # LineAmount(arg.text[i])

(* figures[key] > 0 for a key that is present. *)
Positive(figures, key) == key \in DOMAIN figures /\ figures[key] > 0

(* figures[key] # 0 for a key that is present. *)
NonZero(figures, key) == key \in DOMAIN figures /\ figures[key] # 0

(* C9: calculate_ratios returns a ratio key if and only if the ratio's     *)
(* guard holds on present figures; {revenue: 1000, net_income: 100} gives  *)
(* net_margin = 10.0 and neither roe nor roa.                              *)
C9_RatioPresentIffGuard ==
    pc = "done" =>
        /\ DOMAIN res.metrics \subseteq
               {"net_margin", "roe", "roa", "asset_turnover", "debt_ratio", "ocf_to_ni"}
        /\ "net_margin" \in DOMAIN res.metrics <=>
               Positive(arg, "revenue") /\ Positive(arg, "net_income")
        /\ "roe" \in DOMAIN res.metrics <=>
               Positive(arg, "shareholders_equity") /\ NonZero(arg, "net_income")
        /\ "roa" \in DOMAIN res.metrics <=>
               Positive(arg, "total_assets") /\ NonZero(arg, "net_income")
        /\ "asset_turnover" \in DOMAIN res.metrics <=>
               Positive(arg, "total_assets") /\ Positive(arg, "revenue")
        /\ "debt_ratio" \in DOMAIN res.metrics <=>
               Positive(arg, "total_assets") /\ Positive(arg, "total_liabilities")
        /\ "ocf_to_ni" \in DOMAIN res.metrics <=>
               Positive(arg, "net_income") /\ Positive(arg, "operating_cash_flow")
        /\ (DOMAIN arg = {"revenue", "net_income"}
                /\ arg["revenue"] = 1000 /\ arg["net_income"] = 100) =>
               /\ DOMAIN res.metrics = {"net_margin"}
               /\ res.metrics["net_margin"].value = 1000

(* C9 witness: the figures {revenue: 1000, net_income: 100} went through   *)
(* calculate_ratios and net_margin is 10.00.                               *)
C9_Witness ==
    /\ pc = "done"
    /\ DOMAIN arg = {"revenue", "net_income"}
    /\ arg["revenue"] = 1000
    /\ arg["net_income"] = 100
    /\ res.metrics["net_margin"].value = 1000

(* The table sections the classifier looks at. *)
ClassifiedTables(sections) ==
    {i \in DOMAIN sections :
         sections[i].type = "table" /\ sections[i].raw_data # None}

(* The lower-cased content of a section holds a keyword of the slot's set. *)
HoldsKeywordOf(slot, section) ==
    CASE slot = "income" -> _is_income_statement(Lower(section.content))
      [] slot = "balance" -> _is_balance_sheet(Lower(section.content))
      [] slot = "cashflow" -> _is_cashflow_statement(Lower(section.content))

(* The first class, in the order income, balance, cashflow, whose keywords *)
(* the section holds.                                                      *)
FirstClassOf(section) ==
    IF HoldsKeywordOf("income", section) THEN "income"
    ELSE IF HoldsKeywordOf("balance", section) THEN "balance"
    ELSE IF HoldsKeywordOf("cashflow", section) THEN "cashflow"
    ELSE "none"

Slots == {"income", "balance", "cashflow"}

LastOf(S) == CHOOSE m \in S : \A x \in S : x <= m

(* C10 as stated: each slot holds the last table in document order whose   *)
(* lower-cased content holds a keyword of the slot's set (the empty frame  *)
(* when there is none), so a table holding keywords of several sets is in  *)
(* every slot it matches.                                                  *)
C10_EverySlotTakesLastMatch ==
    pc = "done" =>
        \A slot \in Slots :
            LET matching == {i \in ClassifiedTables(arg.sections) :
                                 HoldsKeywordOf(slot, arg.sections[i])}
            IN res[slot] = IF matching = {} THEN EmptyDataFrame
                           ELSE arg.sections[LastOf(matching)].raw_data

(* C10 as amended: each slot holds the last table in document order whose  *)
(* first matching class, in the order income, balance, cashflow, is that   *)
(* slot (the empty frame when there is none); a table holding keywords of  *)
(* several sets is assigned to the first of them only.                     *)
C10_SlotTakesLastFirstClassMatch ==
    pc = "done" =>
        \A slot \in Slots :
            LET matching == {i \in ClassifiedTables(arg.sections) :
                                 FirstClassOf(arg.sections[i]) = slot}
            IN res[slot] = IF matching = {} THEN EmptyDataFrame
                           ELSE arg.sections[LastOf(matching)].raw_data

(* C10 witness: a cashflow table is followed by a table holding income and *)
(* cashflow keywords; the later one is in the income slot and the earlier  *)
(* one stays in the cashflow slot.                                         *)
C10_Witness ==
    /\ pc = "done"
    /\ \E i, j \in ClassifiedTables(arg.sections) :
           /\ i < j
           /\ FirstClassOf(arg.sections[i]) = "cashflow"
           /\ HoldsKeywordOf("income", arg.sections[j])
           /\ HoldsKeywordOf("cashflow", arg.sections[j])
           /\ arg.sections[i].raw_data # arg.sections[j].raw_data
           /\ res.income = arg.sections[j].raw_data
           /\ res.cashflow = arg.sections[i].raw_data

(* The statements after the first n sections of the report were scanned. *)
StatementsAfter(report, n) ==
    extract_financial_statements(
        [report EXCEPT !.sections = SubSeq(report.sections, 1, n)])

(* The slots whose keyword set the section's lower-cased content meets. *)
MatchingSlots(section) == {slot \in Slots : HoldsKeywordOf(slot, section)}

(* C11: a table whose content holds keywords of more than one statement  *)
(* class is put in exactly one slot, the first of its classes in the     *)
(* order income, balance, cashflow, and every other slot keeps what it   *)
(* held before that table; the result is a function of the sections.     *)
C11_MultiClassTableGoesToFirstClassOnly ==
    pc = "done" =>
        /\ res = StatementsAfter(arg, Len(arg.sections))
        /\ \A i \in ClassifiedTables(arg.sections) :
               Cardinality(MatchingSlots(arg.sections[i])) > 1 =>
                   LET before == StatementsAfter(arg, i - 1)
                       after == IF i = Len(arg.sections) THEN res
                                ELSE StatementsAfter(arg, i)
                       first == FirstClassOf(arg.sections[i])
                   IN /\ first \in MatchingSlots(arg.sections[i])
                      /\ after[first] = arg.sections[i].raw_data
                      /\ \A slot \in Slots \ {first} : after[slot] = before[slot]

(* C11 witness: the last section is a table holding balance and cashflow *)
(* keywords; it is in the balance slot and the cashflow slot holds the   *)
(* cashflow table scanned before it.                                     *)
C11_Witness ==
    /\ pc = "done"
    /\ Len(arg.sections) > 1
    /\ LET n == Len(arg.sections)
       IN /\ n \in ClassifiedTables(arg.sections)
          /\ MatchingSlots(arg.sections[n]) = {"balance", "cashflow"}
          /\ res.balance = arg.sections[n].raw_data
          /\ res.cashflow # arg.sections[n].raw_data
          /\ res.cashflow # EmptyDataFrame

(* C12: parse_pdf never lets an exception out; for a file that cannot be *)
(* opened it returns a Report with no sections, whose company is the     *)
(* hint, or the unknown-company sentinel for an empty hint, and whose    *)
(* report_id is the company, an underscore and the fiscal year.          *)
C12_UnopenablePdfGivesEmptyReport ==
    pc # "call" =>
        /\ ~res.raised
        /\ res.report.report_id =
               res.report.company \o <<"_">> \o IntToStr(arg.fiscal_year)
        /\ res.report.fiscal_year = arg.fiscal_year
        /\ ~arg.pdf.opens =>
               /\ res.report.sections = <<>>
               /\ res.report.company =
                      IF arg.company = <<>> THEN UnknownCompany ELSE arg.company

(* C12 witness: a file that does not open was parsed with an empty hint  *)
(* and the Report carries the sentinel and no sections.                  *)
C12_Witness ==
    /\ pc = "parsed"
    /\ ~arg.pdf.opens
    /\ arg.company = <<>>
    /\ ~res.raised
    /\ res.report.company = UnknownCompany
    /\ res.report.sections = <<>>

(* The sections one page gives when nothing fails on it. *)
PageSections(page, page_num) ==
    PageTables(page.tables, page_num, 0,
               IF Len(Strip(page.text)) > MinPageTextLen
               THEN <<PageTextSection(page.text, page_num)>>
               ELSE <<>>)

(* Extraction fails on the page. *)
PageFails(page) == page.text_raises \/ page.tables_raises

(* C13: when extraction fails on a page of a file that opens, the Report *)
(* still holds the sections of every other page, those before and those *)
(* after the failing page.                                               *)
C13_OtherPagesKeptOnPageFailure ==
    (pc # "call" /\ arg.pdf.opens) =>
        \A k \in DOMAIN arg.pdf.pages :
            ~PageFails(arg.pdf.pages[k]) =>
                Range(PageSections(arg.pdf.pages[k], k - 1))
                    \subseteq Range(res.report.sections)

(* The sections of type TEXT, in order. *)
TextSections(sections) == SelectSeq(sections, LAMBDA section : section.type = "text")

(* C14: with an empty hint the company is the first line holding a       *)
(* corporate-suffix marker among the first 10 lines of each of the first *)
(* 5 sections of type TEXT, tables before them not counting; with no     *)
(* such line it is the unknown-company sentinel.                         *)
C14_NameFromFirstFiveTextSections ==
    (pc # "call" /\ arg.company = <<>>) =>
        LET texts == TextSections(res.report.sections)
            named == {k \in 1..Min(FirstSections, Len(texts)) :
                          NameInLines(SplitLines(texts[k].content), 1) # <<>>}
        IN res.report.company =
               IF named = {} THEN UnknownCompany
               ELSE NameInLines(SplitLines(texts[MinOf(named)].content), 1)[1]

(* The chunks cut from a section: those with its page_ref and type. *)
ChunksOf(section, cs) ==
    {c \in DOMAIN cs : /\ cs[c].page_ref = section.page_ref
                       /\ cs[c].section_type = section.type}

(* The starts of the windows of chunk_size words whose joined text is   *)
(* longer than 50 characters.                                          *)
LongWindows(section, chunk_size) ==
    {i \in 1..Len(section.words) :
         /\ (i - 1) % chunk_size = 0
         /\ Len(JoinWords(SubSeq(section.words, i,
                                 Min(i + chunk_size - 1, Len(section.words)))))
                > MinChunkLen}

(* C15 as stated: every TEXT section parse_pdf emits gives at least one *)
(* chunk and every TABLE section exactly one.                           *)
C15_EveryTextSectionGivesAChunk ==
    pc = "sliced" =>
        \A k \in DOMAIN res.report.sections :
            LET section == res.report.sections[k]
                n == Cardinality(ChunksOf(section, res.chunks))
            IN IF section.type = "text" THEN n >= 1 ELSE n = 1

(* C15 as amended: a TEXT section parse_pdf emits gives one chunk for   *)
(* each window of chunk_size words whose joined text is longer than 50  *)
(* characters, so none when its content has at most 50 characters;      *)
(* every TABLE section gives exactly one chunk, holding its content.    *)
C15_TextSectionGivesAChunkPerLongWindow ==
    pc = "sliced" =>
        \A k \in DOMAIN res.report.sections :
            LET section == res.report.sections[k]
                own == ChunksOf(section, res.chunks)
            IN IF section.type = "text"
               THEN /\ Cardinality(own) =
                           Cardinality(LongWindows(section, res.chunk_size))
                    /\ Len(section.content) <= MinChunkLen => own = {}
               ELSE /\ Cardinality(own) = 1
                    /\ \A c \in own : res.chunks[c].text = section.content

(* C15 witness: with the default chunk size, a Report holding a TEXT      *)
(* section of 21 to 50 characters, a longer TEXT section and a TABLE      *)
(* section was sliced; the short section gave no chunk, the others one.   *)
C15_Witness ==
    /\ pc = "sliced"
    /\ res.chunk_size = DefaultChunkSize
    /\ \E i, j, k \in DOMAIN res.report.sections :
           LET short == res.report.sections[i]
               long == res.report.sections[j]
               table == res.report.sections[k]
           IN /\ short.type = "text"
              /\ Len(short.content) > MinPageTextLen
              /\ Len(short.content) <= MinChunkLen
              /\ ChunksOf(short, res.chunks) = {}
              /\ long.type = "text"
              /\ Cardinality(ChunksOf(long, res.chunks)) = 1
              /\ table.type = "table"
              /\ Cardinality(ChunksOf(table, res.chunks)) = 1

(* C16: embed_batch returns one vector per text, in the order of the     *)
(* texts; where the backend call fails the position holds the mock       *)
(* vector of its text, and every position is what its own text and its   *)
(* own call give, whatever happened at the other positions.              *)
C16_BatchOneVectorPerTextInOrder ==
    pc = "done" =>
        /\ Len(res) = Len(arg.texts)
        /\ \A i \in DOMAIN arg.texts :
               res[i] = IF ~client \/ arg.outcomes[i].fails
                        THEN _generate_mock_embedding(arg.texts[i])
                        ELSE arg.outcomes[i].vector

(* C16 witness: with the real backend a batch of three texts was         *)
(* embedded, the call failed on the first text only; the first position  *)
(* holds its mock vector and the later ones the backend's answers.       *)
C16_Witness ==
    /\ pc = "done"
    /\ client
    /\ Len(arg.texts) = 3
    /\ arg.outcomes[1].fails
    /\ ~arg.outcomes[2].fails
    /\ ~arg.outcomes[3].fails
    /\ Len(res) = 3
    /\ res[1] = _generate_mock_embedding(arg.texts[1])
    /\ res[2] = arg.outcomes[2].vector
    /\ res[3] = arg.outcomes[3].vector
    /\ res[1] # res[2]

ProducerCompany(result, reports) ==
    LET producer == CHOOSE k \in DOMAIN reports :
                        reports[k].report_id = result.doc_id
    IN reports[producer].company

(* C18: search_semantic puts every result of its flat search in exactly  *)
(* one group, keyed by the company of the Report that produced the       *)
(* chunk, and the results of a group are in the order of the flat        *)
(* search.                                                               *)
C18_GroupedByProducerCompany ==
    (ret.op = "search_semantic" /\ res # <<>>) =>
        LET key(result) == ProducerCompany(result, arg)
        IN /\ DOMAIN res.grouped =
                  {key(res.results[i]) : i \in DOMAIN res.results}
           /\ \A company \in DOMAIN res.grouped :
                  res.grouped[company] =
                      SelectSeq(res.results, LAMBDA result : key(result) = company)

(* C19: generate_company_answer never raises; without the collaborator  *)
(* or when its call fails the response has a placeholder or error       *)
(* answer, no sources and confidence 0.0; confidence is 0.8 only after  *)
(* a successful call, and then no page ref is twice in the sources.     *)
C19_AnswerNeverRaises ==
    pc = "done" =>
        /\ ~res.raised
        /\ res.value.company = arg.company
        /\ res.value.query = arg.query
        /\ (~client \/ arg.outcome.fails) =>
               /\ res.value.answer =
                      IF ~client THEN UnavailableAnswer
                      ELSE ErrorAnswer(arg.outcome.text)
               /\ res.value.sources = <<>>
               /\ res.value.confidence = 0
        /\ res.value.confidence # 0 =>
               /\ res.value.confidence = 8
               /\ client /\ ~arg.outcome.fails
               /\ res.value.answer = arg.outcome.text
               /\ \A i, j \in DOMAIN res.value.sources :
                      res.value.sources[i] = res.value.sources[j] => i = j
               /\ Range(res.value.sources) = Range(PageRefs(arg.context_chunks))

(* C19 witness: the collaborator answered for three context chunks, two *)
(* of them with the same page ref; confidence is 0.8 and the sources    *)
(* are the two distinct page refs.                                      *)
C19_Witness ==
    /\ pc = "done"
    /\ client
    /\ ~arg.outcome.fails
    /\ Len(arg.context_chunks) = 3
    /\ Cardinality(Range(PageRefs(arg.context_chunks))) = 2
    /\ res.value.confidence = 8
    /\ Len(res.value.sources) = 2

(* The upload went through the try block without an exception. *)
Processed(upload) == ~upload.save_fails /\ ~upload.try_fails

(* The CompanyMetrics of the uploads that were processed, in upload order. *)
MetricsOfProcessed(uploads) ==
    LET processed == SelectSeq(uploads, Processed)
    IN [k \in 1..Len(processed) |-> UploadMetrics(processed[k])]

(* C20: a failure on one upload does not stop the uploads after it: all *)
(* uploads of the batch are gone through, the collection is the earlier *)
(* entries followed by one CompanyMetrics per upload that was processed *)
(* without failure, in upload order, and no temporary file is left.     *)
C20_BatchSurvivesFailures ==
    pc = "done" =>
        /\ res.attempted = Len(arg.uploads)
        /\ Get(res.session, "company_metrics", <<>>) =
               Get(arg.session, "company_metrics", <<>>)
                   \o MetricsOfProcessed(arg.uploads)
        /\ res.temp_files = {}

(* The uploads whose CompanyMetrics were appended by the call: those *)
(* processed among the uploads the loop came to.                    *)
AppendedUploads ==
    SelectSeq(SubSeq(arg.uploads, 1, res.attempted), Processed)

(* The entries the call appended to the collection. *)
AppendedMetrics ==
    LET stored == Get(res.session, "company_metrics", <<>>)
        earlier == Len(Get(arg.session, "company_metrics", <<>>))
    IN SubSeq(stored, earlier + 1, Len(stored))

(* The Report the CompanyMetrics of an upload was computed from. *)
ReportOfUpload(upload) == UploadReportOf[<<upload.file, upload.company_name>>]

(* The company of every stored CompanyMetrics is the company of its Report. *)
StoredCompanyIsReportCompany ==
    pc = "done" =>
        /\ Len(AppendedMetrics) = Len(AppendedUploads)
        /\ \A k \in 1..Len(AppendedUploads) :
               AppendedMetrics[k].company = ReportOfUpload(AppendedUploads[k]).company

(* C21: every CompanyMetrics stored by the call has the company and the *)
(* fiscal_year of the Report it was computed from.                      *)
C21_StoredMetricsCarryReportIdentity ==
    pc = "done" =>
        /\ Len(AppendedMetrics) = Len(AppendedUploads)
        /\ \A k \in 1..Len(AppendedUploads) :
               LET report == ReportOfUpload(AppendedUploads[k])
               IN /\ AppendedMetrics[k].company = report.company
                  /\ AppendedMetrics[k].fiscal_year = report.fiscal_year

(* The keys the three extractors write. *)
ExtractedKeys ==
    {"revenue", "net_income", "total_assets", "shareholders_equity",
     "operating_cash_flow"}

(* C22: whatever statements were classified, extract_key_figures gives  *)
(* keys among revenue, net_income, total_assets, shareholders_equity and *)
(* operating_cash_flow only, never total_liabilities, and the            *)
(* CompanyMetrics at the end of the pipeline has no debt_ratio.          *)
C22_NoLiabilitiesNoDebtRatio ==
    /\ pc \in {"extracted", "done"} =>
           /\ DOMAIN res.figures \subseteq ExtractedKeys
           /\ "total_liabilities" \notin DOMAIN res.figures
    /\ pc = "done" => "debt_ratio" \notin DOMAIN res.metrics.metrics

(* The pipeline has ended on a balance sheet that states total assets and *)
(* total liabilities, next to an income statement: the assets were        *)
(* extracted and ROA was computed.                                        *)
C22_Witness ==
    /\ pc = "done"
    /\ _find_amount_by_keywords(res.statements.balance.lines,
                                account_keywords.zh.total_liabilities) # <<>>
    /\ "total_assets" \in DOMAIN res.figures
    /\ "roa" \in DOMAIN res.metrics.metrics

====
